---- MODULE Spec2Model ----
(***************************************************************************)
(* Model of delorian's flux repository resolution (package pkg/repo/flux): *)
(* the crawl of the repository tree, the linking of Flux kustomizations to *)
(* their build directories, source binding, the cluster forest with its    *)
(* reparenting pass, the final sort and the list exposed to the sidebar.   *)
(*                                                                         *)
(* A Go string is a sequence of one-character strings, so that prefix,     *)
(* suffix, replace and comparison are computed and not assumed.  A pointer *)
(* into m.kustomizations or m.sources is the index of the slot it points   *)
(* at (0 is nil): the slices are not reallocated after the crawl, so a     *)
(* pointer taken during linking keeps denoting the slot, whatever record   *)
(* the sort later moves into it.                                           *)
(***************************************************************************)
EXTENDS Integers, Sequences, FiniteSets, TLC

(***************************************************************************)
(* Strings                                                                 *)
(***************************************************************************)

\* The characters that occur in the model, in ASCII order.
Chars ==
  << " ", "$", "-", ".", "/", "E", "N", "V",
     "a", "b", "c", "d", "e", "f", "g", "h", "i", "j", "k", "l", "m",
     "n", "o", "p", "q", "r", "s", "t", "u", "v", "w", "x", "y", "z",
     "{", "}" >>

Ord(c) == CHOOSE i \in 1..Len(Chars) : Chars[i] = c

\* Optional values (Go pointers to scalars): None is nil, Some(x) points at x.
None == << >>
Some(x) == << x >>

\* The elements of a sequence
Range(seq) == { seq[i] : i \in 1..Len(seq) }

Min(a, b) == IF a < b THEN a ELSE b

RECURSIVE StrCompareFrom(_, _, _)
StrCompareFrom(a, b, i) ==
  IF i > Len(a) /\ i > Len(b) THEN 0
  ELSE IF i > Len(a) THEN -1
  ELSE IF i > Len(b) THEN 1
  ELSE IF Ord(a[i]) < Ord(b[i]) THEN -1
  ELSE IF Ord(a[i]) > Ord(b[i]) THEN 1
  ELSE StrCompareFrom(a, b, i + 1)

\* strings.Compare
StrCompare(a, b) == StrCompareFrom(a, b, 1)

\* cmp.Compare on integers
IntCompare(a, b) == IF a < b THEN -1 ELSE IF a > b THEN 1 ELSE 0

HasPrefix(s, p) == Len(p) <= Len(s) /\ SubSeq(s, 1, Len(p)) = p

HasSuffix(s, p) == Len(p) <= Len(s) /\ SubSeq(s, Len(s) - Len(p) + 1, Len(s)) = p

TrimPrefix(s, p) == IF HasPrefix(s, p) THEN SubSeq(s, Len(p) + 1, Len(s)) ELSE s

TrimSuffix(s, p) == IF HasSuffix(s, p) THEN SubSeq(s, 1, Len(s) - Len(p)) ELSE s

\* strings.Contains
Contains(s, sub) ==
  \E i \in 1..(Len(s) + 1) :
    i + Len(sub) - 1 <= Len(s) /\ SubSeq(s, i, i + Len(sub) - 1) = sub

RECURSIVE TrimRight(_, _)
TrimRight(s, c) ==
  IF Len(s) > 0 /\ s[Len(s)] = c THEN TrimRight(SubSeq(s, 1, Len(s) - 1), c) ELSE s

RECURSIVE TrimLeft(_, _)
TrimLeft(s, c) ==
  IF Len(s) > 0 /\ s[1] = c THEN TrimLeft(Tail(s), c) ELSE s

\* strings.TrimSpace (the blank is the only white space of the alphabet)
TrimSpace(s) == TrimLeft(TrimRight(s, " "), " ")

RECURSIVE ReplaceAllFrom(_, _, _, _)
ReplaceAllFrom(s, old, new, i) ==
  IF i > Len(s) THEN << >>
  ELSE IF i + Len(old) - 1 <= Len(s) /\ SubSeq(s, i, i + Len(old) - 1) = old
       THEN new \o ReplaceAllFrom(s, old, new, i + Len(old))
       ELSE << s[i] >> \o ReplaceAllFrom(s, old, new, i + 1)

\* strings.ReplaceAll for a non-empty old: the non-overlapping occurrences of
\* old, found from the left, are replaced by new.
ReplaceAll(s, old, new) == ReplaceAllFrom(s, old, new, 1)

RECURSIVE Cat(_)
\* Concatenation of a sequence of strings.
Cat(ss) == IF ss = << >> THEN << >> ELSE Head(ss) \o Cat(Tail(ss))

RECURSIVE SplitFrom(_, _, _)
SplitFrom(s, c, cur) ==
  IF s = << >> THEN << cur >>
  ELSE IF Head(s) = c THEN << cur >> \o SplitFrom(Tail(s), c, << >>)
  ELSE SplitFrom(Tail(s), c, Append(cur, Head(s)))

\* strings.Split(s, "/")
Split(s) == SplitFrom(s, "/", << >>)

RECURSIVE JoinSegs(_)
\* strings.Join(segs, "/")
JoinSegs(segs) ==
  IF segs = << >> THEN << >>
  ELSE IF Len(segs) = 1 THEN segs[1]
  ELSE segs[1] \o << "/" >> \o JoinSegs(Tail(segs))

(***************************************************************************)
(* path/filepath                                                           *)
(***************************************************************************)

IsAbs(p) == Len(p) > 0 /\ p[1] = "/"

Last(seq) == seq[Len(seq)]

RECURSIVE CleanSegs(_, _, _)
\* The segments of a cleaned path: "." and empty segments are dropped, ".."
\* removes the segment before it (at the root of an absolute path it is
\* dropped, at the start of a relative path it is kept).
CleanSegs(segs, acc, abs) ==
  IF segs = << >> THEN acc
  ELSE IF Head(segs) = << >> \/ Head(segs) = << "." >> THEN CleanSegs(Tail(segs), acc, abs)
  ELSE IF Head(segs) = << ".", "." >> THEN
    IF acc # << >> /\ Last(acc) # << ".", "." >>
      THEN CleanSegs(Tail(segs), SubSeq(acc, 1, Len(acc) - 1), abs)
    ELSE IF abs THEN CleanSegs(Tail(segs), acc, abs)
    ELSE CleanSegs(Tail(segs), Append(acc, Head(segs)), abs)
  ELSE CleanSegs(Tail(segs), Append(acc, Head(segs)), abs)

CleanJoin(segs, abs) ==
  IF abs THEN << "/" >> \o JoinSegs(segs)
  ELSE IF segs = << >> THEN << "." >>
  ELSE JoinSegs(segs)

\* filepath.Clean
Clean(p) == CleanJoin(CleanSegs(Split(p), << >>, IsAbs(p)), IsAbs(p))

\* filepath.Join of two elements: empty elements are ignored, the rest is
\* joined by a separator and cleaned.
Join(a, b) ==
  IF a = << >> /\ b = << >> THEN << >>
  ELSE Clean(IF a = << >> THEN b ELSE IF b = << >> THEN a ELSE a \o << "/" >> \o b)

BaseTrimmed(t) == IF t = << >> THEN << "/" >> ELSE Last(Split(t))

\* filepath.Base
Base(p) == IF p = << >> THEN << "." >> ELSE BaseTrimmed(TrimRight(p, "/"))

\* filepath.Dir: the path without its last element, cleaned
Dir(p) ==
  IF p = << >> THEN << "." >>
  ELSE Clean(SubSeq(p, 1, Len(p) - Len(Last(Split(p)))))

RECURSIVE LastDot(_, _)
LastDot(s, i) ==
  IF i < 1 THEN 0
  ELSE IF s[i] = "/" THEN 0
  ELSE IF s[i] = "." THEN i
  ELSE LastDot(s, i - 1)

ExtFrom(p, i) == IF i = 0 THEN << >> ELSE SubSeq(p, i, Len(p))

\* filepath.Ext: the suffix of the last element from its last dot on.
Ext(p) == ExtFrom(p, LastDot(p, Len(p)))


\* strings.ToLower on the characters of the model
ToLowerChar(c) ==
  IF c = "E" THEN "e" ELSE IF c = "N" THEN "n" ELSE IF c = "V" THEN "v" ELSE c

ToLower(s) == [i \in 1..Len(s) |-> ToLowerChar(s[i])]

(***************************************************************************)
(* The repository trees on disk                                            *)
(***************************************************************************)

kustomizationApi == "kustomize.toolkit.fluxcd.io"
sourceApi == "source.toolkit.fluxcd.io"

\* kustomize.Kustomization: the base name of a layering file
Kustomization == << "k", "u", "s", "t", "o", "m", "i", "z", "a", "t", "i", "o", "n" >>

\* The working directory the program is started in (os.Getwd).
Root == << "/", "r", "e", "p", "o" >>

Yaml == << ".", "y", "a", "m", "l" >>
Yml == << ".", "y", "m", "l" >>

W_apps == << "a", "p", "p", "s" >>
W_base == << "b", "a", "s", "e" >>
W_overlay == << "o", "v", "e", "r", "l", "a", "y" >>
W_clusters == << "c", "l", "u", "s", "t", "e", "r", "s" >>
W_hub == << "h", "u", "b" >>
W_prod == << "p", "r", "o", "d" >>
W_mgmt == << "m", "g", "m", "t" >>
W_dev == << "d", "e", "v" >>
W_infra == << "i", "n", "f", "r", "a" >>
W_fluxsystem == << "f", "l", "u", "x", "-", "s", "y", "s", "t", "e", "m" >>
W_default == << "d", "e", "f", "a", "u", "l", "t" >>
W_deploy == << "d", "e", "p", "l", "o", "y" >>
W_source == << "s", "o", "u", "r", "c", "e" >>
W_listed == << "l", "i", "s", "t", "e", "d" >>
W_patch == << "p", "a", "t", "c", "h" >>
W_hidden == << "h", "i", "d", "d", "e", "n" >>
W_zbase == << "z", "b", "a", "s", "e" >>
W_readme == << "r", "e", "a", "d", "m", "e" >>
W_link == << "l", "i", "n", "k" >>
W_app == << "a", "p", "p" >>
W_ENV == << "E", "N", "V" >>
W_fleet == << "f", "l", "e", "e", "t" >>
W_edge == << "e", "d", "g", "e" >>
W_missing == << "m", "i", "s", "s", "i", "n", "g" >>
W_top == << "t", "o", "p" >>
W_nested == << "n", "e", "s", "t", "e", "d" >>
W_deep == << "d", "e", "e", "p" >>
W_late == << "l", "a", "t", "e" >>
W_github == << "g", "i", "t", "h", "u", "b" >>
W_myclusters == << "m", "y" >> \o W_clusters

\* The absolute path of the entry with the given segments below the root.
P(segs) == Root \o << "/" >> \o JoinSegs(segs)

\* A decoded YAML document: a field that the document does not give is None.
KDoc(name, ns, path, src, subst) ==
  [ api |-> Some(kustomizationApi), kind |-> Some("Kustomization"),
    name |-> Some(name), namespace |-> ns, path |-> path,
    sourceRef |-> src, substitute |-> subst ]

SDoc(kind, name, ns) ==
  [ api |-> Some(sourceApi), kind |-> Some(kind),
    name |-> Some(name), namespace |-> ns, path |-> None,
    sourceRef |-> None, substitute |-> None ]

\* A document of another API group (a layering file, a ConfigMap, ...).
ODoc(name) ==
  [ api |-> Some("other"), kind |-> Some("Other"),
    name |-> Some(name), namespace |-> None, path |-> None,
    sourceRef |-> None, substitute |-> None ]

SRef(kind, name, ns) == [ kind |-> Some(kind), name |-> Some(name), namespace |-> ns ]

\* A file with its documents as the flux decoder and as the kustomize decoder
\* see them; readable = FALSE is a file that os.ReadFile fails on.
YamlFile(path, docs) == [ path |-> path, docs |-> docs, kust |-> << >>, readable |-> TRUE ]

LayeringFile(path, resources, patches) ==
  [ path |-> path, docs |-> << ODoc(Kustomization) >>,
    kust |-> << [ resources |-> resources, patches |-> patches ] >>, readable |-> TRUE ]

\* The end-to-end tree of the specification.
TreeEndToEnd ==
  [ dirs |-> { Root, P(<<W_apps>>), P(<<W_apps, W_base>>), P(<<W_apps, W_overlay>>),
               P(<<W_clusters>>), P(<<W_clusters, W_prod>>) },
    broken |-> { },
    files |-> {
      LayeringFile(P(<<W_apps, W_base, Kustomization \o Yaml>>), << W_deploy \o Yaml >>, << >>),
      YamlFile(P(<<W_apps, W_base, W_deploy \o Yaml>>),
               << KDoc(W_app, Some(W_default), None, None, None) >>),
      YamlFile(P(<<W_clusters, W_prod, W_apps \o Yaml>>),
               << KDoc(W_apps, None, Some(W_apps \o << "/" >> \o W_overlay), None,
                       Some([k \in {W_ENV} |-> W_prod])) >>),
      LayeringFile(P(<<W_apps, W_overlay, Kustomization \o Yaml>>),
                   << << ".", ".", "/" >> \o W_base >>, << >>) } ]

\* Two kustomizations that reference one GitRepository; the build directory of
\* "b" is the directory b.yaml itself lies in, that of "a" does not exist.
TreeSources ==
  [ dirs |-> { Root, P(<<W_clusters>>), P(<<W_clusters, W_dev>>) },
    broken |-> { },
    files |-> {
      YamlFile(P(<<W_clusters, W_dev, << "b" >> \o Yaml>>),
               << KDoc(<< "b" >>, Some(W_fluxsystem),
                       Some(<< ".", "/" >> \o W_clusters \o << "/" >> \o W_dev),
                       Some(SRef("GitRepository", W_fluxsystem, None)), None) >>),
      YamlFile(P(<<W_clusters, W_dev, << "a" >> \o Yaml>>),
               << KDoc(<< "a" >>, Some(W_fluxsystem), Some(<< ".", "/" >> \o W_missing),
                       Some(SRef("GitRepository", W_fluxsystem, Some(W_fluxsystem))), None) >>),
      YamlFile(P(<<W_clusters, W_dev, W_source \o Yaml>>),
               << SDoc("GitRepository", W_fluxsystem, Some(W_fluxsystem)) >>),
      LayeringFile(P(<<W_clusters, W_dev, Kustomization \o Yaml>>),
                   << << "a" >> \o Yaml, << "b" >> \o Yaml,
                      << ".", ".", "/" >> \o W_source \o Yaml >>, << >>) } ]

\* A directory whose layering file lists one kustomization as a resource and
\* as a patch, one as a patch only, and does not mention the third.
TreeLayered ==
  [ dirs |-> { Root, P(<<W_infra>>) },
    broken |-> { },
    files |-> {
      LayeringFile(P(<<W_infra, Kustomization \o Yaml>>),
                   << W_listed \o Yaml >>, << W_patch \o Yaml, W_listed \o Yaml >>),
      YamlFile(P(<<W_infra, W_listed \o Yaml>>),
               << KDoc(W_listed, Some(W_default), None, None, None) >>),
      YamlFile(P(<<W_infra, W_patch \o Yaml>>),
               << KDoc(W_patch, Some(W_default), None, None, None) >>),
      YamlFile(P(<<W_infra, W_hidden \o Yaml>>),
               << KDoc(W_zbase, Some(W_default), None, None, None) >>) } ]

\* Four cluster directories; mgmt holds a prod.yaml, prod holds a dev.yaml and
\* two kustomizations of the same name; dev holds the cluster directory
\* hub/edge.
TreeClusters ==
  [ dirs |-> { Root, P(<<W_clusters>>), P(<<W_clusters, W_mgmt>>),
               P(<<W_clusters, W_prod>>), P(<<W_clusters, W_dev>>),
               P(<<W_clusters, W_dev, W_hub>>), P(<<W_clusters, W_dev, W_hub, W_edge>>),
               P(<<W_clusters, W_fluxsystem>>) },
    broken |-> { },
    files |-> {
      YamlFile(P(<<W_clusters, W_mgmt, W_prod \o Yaml>>),
               << KDoc(W_prod, Some(W_fluxsystem),
                       Some(<< ".", "/" >> \o W_clusters \o << "/" >> \o W_prod), None, None) >>),
      YamlFile(P(<<W_clusters, W_prod, W_apps \o Yaml>>),
               << KDoc(W_apps, Some(W_fluxsystem), None, None, None) >>),
      YamlFile(P(<<W_clusters, W_prod, W_dev \o Yaml>>), << ODoc(W_dev) >>),
      YamlFile(P(<<W_clusters, W_prod, W_infra \o Yaml>>),
               << KDoc(W_apps, Some(W_default), None, None, None) >>) } ]

\* A directory that is no flux repository.
TreeEmpty ==
  [ dirs |-> { Root, P(<<W_hub>>), P(<<W_hub, W_dev>>) },
    broken |-> { },
    files |-> {
      YamlFile(P(<<W_readme \o Yaml>>), << ODoc(W_readme) >>),
      YamlFile(P(<<W_hub, W_dev, W_readme \o << ".", "t", "x", "t" >> >>), << >>) } ]

\* A flux repository with a dangling symbolic link.
TreeBroken ==
  [ dirs |-> { Root, P(<<W_clusters>>), P(<<W_clusters, W_prod>>) },
    broken |-> { P(<<W_link>>) },
    files |-> {
      YamlFile(P(<<W_clusters, W_prod, W_apps \o Yaml>>),
               << KDoc(W_apps, Some(W_fluxsystem), None, None, None) >>) } ]

\* Three kustomizations at the root and two GitRepository documents of the
\* same name and namespace, one for each of two directories: "flux-system"
\* builds fleet, "a" builds fleet/prod, both reference the GitRepository;
\* "b" builds fleet/dev and references no source.  The layering file of
\* fleet/dev lists the source file beside it.
TreeBinding ==
  [ dirs |-> { Root, P(<<W_fleet>>), P(<<W_fleet, W_dev>>), P(<<W_fleet, W_prod>>) },
    broken |-> { },
    files |-> {
      YamlFile(P(<<W_fluxsystem \o Yaml>>),
               << KDoc(W_fluxsystem, Some(W_fluxsystem), Some(<< ".", "/" >> \o W_fleet),
                       Some(SRef("GitRepository", W_fluxsystem, None)), None) >>),
      YamlFile(P(<<<< "a" >> \o Yaml>>),
               << KDoc(<< "a" >>, Some(W_default),
                       Some(<< ".", "/" >> \o W_fleet \o << "/" >> \o W_prod),
                       Some(SRef("GitRepository", W_fluxsystem, Some(W_fluxsystem))), None) >>),
      YamlFile(P(<<<< "b" >> \o Yaml>>),
               << KDoc(<< "b" >>, Some(W_default),
                       Some(<< ".", "/" >> \o W_fleet \o << "/" >> \o W_dev), None, None) >>),
      YamlFile(P(<<W_fleet, W_dev, W_source \o Yaml>>),
               << SDoc("GitRepository", W_fluxsystem, Some(W_fluxsystem)) >>),
      YamlFile(P(<<W_fleet, W_prod, W_source \o Yaml>>),
               << SDoc("GitRepository", W_fluxsystem, Some(W_fluxsystem)) >>),
      LayeringFile(P(<<W_fleet, W_dev, Kustomization \o Yaml>>),
                   << << ".", ".", "/" >> \o W_source \o Yaml >>, << >>) } ]

\* A kustomization beside a layering file that cannot be read.
TreeUnreadable ==
  [ dirs |-> { Root, P(<<W_infra>>) },
    broken |-> { },
    files |-> {
      [ LayeringFile(P(<<W_infra, Kustomization \o Yaml>>), << >>, << >>)
          EXCEPT !.readable = FALSE ],
      YamlFile(P(<<W_infra, W_hidden \o Yaml>>),
               << KDoc(W_zbase, Some(W_default), None, None, None) >>) } ]

\* One file with two documents: two kustomizations of the same name, the first
\* in namespace prod with no source reference, the second in namespace dev
\* with a reference to the GitRepository beside it.
TreeTwins ==
  [ dirs |-> { Root, P(<<W_dev>>), P(<<W_prod>>) },
    broken |-> { },
    files |-> {
      YamlFile(P(<<W_apps \o Yaml>>),
               << KDoc(W_app, Some(W_prod), Some(<< ".", "/" >> \o W_prod), None, None),
                  KDoc(W_app, Some(W_dev), Some(<< ".", "/" >> \o W_dev),
                       Some(SRef("GitRepository", W_fluxsystem, Some(W_fluxsystem))), None) >>),
      YamlFile(P(<<W_source \o Yaml>>),
               << SDoc("GitRepository", W_fluxsystem, Some(W_fluxsystem)) >>) } ]

\* A kustomization beside a layering file that does not mention it
TreeHidden ==
  [ dirs |-> { Root, P(<<W_infra>>) },
    broken |-> { },
    files |-> {
      LayeringFile(P(<<W_infra, Kustomization \o Yaml>>), << >>, << >>),
      YamlFile(P(<<W_infra, W_hidden \o Yaml>>),
               << KDoc(W_zbase, Some(W_default), None, None, None) >>) } ]

\* A build directory whose layering file lists, written from the layering
\* file itself, a manifest, then a directory, then a source; the directory has
\* a layering file that lists a manifest.
TreeNested ==
  [ dirs |-> { Root, P(<<W_fleet>>), P(<<W_fleet, W_nested>>) },
    broken |-> { },
    files |-> {
      YamlFile(P(<<W_top \o Yaml>>),
               << KDoc(W_top, Some(W_default), Some(<< ".", "/" >> \o W_fleet), None, None) >>),
      LayeringFile(P(<<W_fleet, Kustomization \o Yaml>>),
                   << << ".", ".", "/" >> \o W_app \o Yaml,
                      << ".", ".", "/" >> \o W_nested,
                      << ".", ".", "/" >> \o W_late \o Yaml >>, << >>),
      YamlFile(P(<<W_fleet, W_app \o Yaml>>),
               << KDoc(W_app, Some(W_default), None, None, None) >>),
      YamlFile(P(<<W_fleet, W_late \o Yaml>>),
               << SDoc("GitRepository", W_late, Some(W_default)) >>),
      LayeringFile(P(<<W_fleet, W_nested, Kustomization \o Yaml>>),
                   << << ".", ".", "/" >> \o W_deep \o Yaml >>, << >>),
      YamlFile(P(<<W_fleet, W_nested, W_deep \o Yaml>>),
               << KDoc(W_deep, Some(W_default), None, None, None) >>) } ]

\* A kustomization with a substitution map whose build directory holds a
\* kustomization with the token of the map in its name and in its build path;
\* the layering file of the build directory names that file too.
TreeSubst ==
  [ dirs |-> { Root, P(<<W_apps>>) },
    broken |-> { },
    files |-> {
      YamlFile(P(<<W_apps \o Yaml>>),
               << KDoc(W_apps, Some(W_default), Some(<< ".", "/" >> \o W_apps), None,
                       Some([k \in {W_ENV} |-> W_prod])) >>),
      YamlFile(P(<<W_apps, W_app \o Yaml>>),
               << KDoc(W_app \o << "-", "$", "{" >> \o W_ENV \o << "}" >>, Some(W_default),
                       Some(<< ".", "/", "$", "{" >> \o W_ENV \o << "}" >>), None, None) >>),
      LayeringFile(P(<<W_apps, Kustomization \o Yaml>>),
                   << << ".", ".", "/" >> \o W_app \o Yaml >>, << >>) } ]

\* Two directories named dev, one under clusters and one under hub, each
\* with the cluster directory hub/edge below it: the four visited paths that
\* name a cluster all name the root dev, two of them with the child edge.
TreeShared ==
  [ dirs |-> { Root, P(<<W_clusters>>), P(<<W_clusters, W_dev>>),
               P(<<W_clusters, W_dev, W_hub>>), P(<<W_clusters, W_dev, W_hub, W_edge>>),
               P(<<W_hub>>), P(<<W_hub, W_dev>>),
               P(<<W_hub, W_dev, W_hub>>), P(<<W_hub, W_dev, W_hub, W_edge>>) },
    broken |-> { },
    files |-> { } ]

\* Layering files whose resources name directories in a circle: a lists b
\* and b lists a, and c lists itself, each spelled from the directory of the
\* layering file ("../b") and from the layering file ("../../b").
TreeCycle ==
  [ dirs |-> { Root, P(<< << "a" >> >>), P(<< << "b" >> >>), P(<< << "c" >> >>) },
    broken |-> { },
    files |-> {
      YamlFile(P(<< << "a" >> \o Yaml >>),
               << KDoc(<< "a" >>, Some(W_default), Some(<< ".", "/", "a" >>), None, None) >>),
      YamlFile(P(<< << "c" >> \o Yaml >>),
               << KDoc(<< "c" >>, Some(W_default), Some(<< ".", "/", "c" >>), None, None) >>),
      LayeringFile(P(<< << "a" >>, Kustomization \o Yaml >>),
                   << << ".", ".", "/", "b" >>, << ".", ".", "/", ".", ".", "/", "b" >> >>,
                   << >>),
      LayeringFile(P(<< << "b" >>, Kustomization \o Yaml >>),
                   << << ".", ".", "/", "a" >>, << ".", ".", "/", ".", ".", "/", "a" >> >>,
                   << >>),
      LayeringFile(P(<< << "c" >>, Kustomization \o Yaml >>),
                   << << "." >>, << ".", "." >> >>, << >>) } ]

\* Directories whose names end with the letters of a marker: github/ci and
\* myclusters/dev.
TreeGithub ==
  [ dirs |-> { Root, P(<<W_github>>), P(<<W_github, << "c", "i" >> >>),
               P(<<W_myclusters>>), P(<<W_myclusters, W_dev>>) },
    broken |-> { },
    files |-> {
      YamlFile(P(<<W_myclusters, W_dev, W_apps \o Yaml>>),
               << KDoc(W_apps, Some(W_fluxsystem), None, None, None) >>) } ]

\* The reserved directory clusters/flux-system with the directory hub/default
\* below it.
TreeReserved ==
  [ dirs |-> { Root, P(<<W_clusters>>), P(<<W_clusters, W_fluxsystem>>),
               P(<<W_clusters, W_fluxsystem, W_hub>>),
               P(<<W_clusters, W_fluxsystem, W_hub, W_default>>) },
    broken |-> { },
    files |-> {
      YamlFile(P(<<W_clusters, W_fluxsystem, W_apps \o Yaml>>),
               << KDoc(W_apps, Some(W_fluxsystem), None, None, None) >>) } ]

\* A chain of three manifests: a builds ./apps and substitutes ENV, b in apps
\* builds ./${ENV}, c lies in the directory prod.
TreeChain ==
  [ dirs |-> { Root, P(<<W_apps>>), P(<<W_prod>>) },
    broken |-> { },
    files |-> {
      YamlFile(P(<<<< "a" >> \o Yaml>>),
               << KDoc(<< "a" >>, Some(W_default), Some(<< ".", "/" >> \o W_apps), None,
                       Some([k \in {W_ENV} |-> W_prod])) >>),
      YamlFile(P(<<W_apps, << "b" >> \o Yaml>>),
               << KDoc(<< "b" >>, Some(W_default),
                       Some(<< ".", "/", "$", "{" >> \o W_ENV \o << "}" >>), None, None) >>),
      YamlFile(P(<<W_prod, << "c" >> \o Yaml>>),
               << KDoc(<< "c" >>, Some(W_default), None, None, None) >>) } ]

Trees == << TreeEndToEnd, TreeSources, TreeLayered, TreeClusters, TreeEmpty, TreeBroken,
           TreeBinding, TreeUnreadable, TreeTwins, TreeHidden, TreeNested, TreeSubst,
           TreeShared, TreeCycle, TreeGithub, TreeReserved, TreeChain >>

FilePaths(t) == { f.path : f \in Trees[t].files }

Entries(t) == Trees[t].dirs \cup FilePaths(t) \cup Trees[t].broken

FileAt(t, p) == CHOOSE f \in Trees[t].files : f.path = p

\* os.Stat succeeds
StatOk(t, p) == p \in Trees[t].dirs \cup FilePaths(t)

IsDir(t, p) == p \in Trees[t].dirs

\* The entries of directory d
DirEntries(t, d) == { p \in Entries(t) : p # d /\ Dir(p) = d }

\* filepath.Abs: the working directory is the root
Abs(p) == Clean(IF IsAbs(p) THEN p ELSE Root \o << "/" >> \o p)


(***************************************************************************)
(* Decoding a file (parseYaml)                                             *)
(***************************************************************************)

\* The variable doc of parseYaml before the first document is decoded.
\* nsPtr, pathPtr, srcPtr and pbPtr tell whether the pointer fields
\* Metadata.Namespace, Spec.Path, Spec.Source and Spec.PostBuild are set; ns,
\* path, srcKind, srcName, srcNsVal and subst are what they point at.  srcNs
\* tells where Spec.Source.Namespace points: nowhere ("nil"), at a string of
\* its own ("own") or at the string Metadata.Namespace points at ("meta").
ZeroDoc ==
  [ api |-> "", kind |-> "", name |-> << >>,
    nsPtr |-> FALSE, ns |-> << >>,
    pathPtr |-> FALSE, path |-> << >>,
    srcPtr |-> FALSE, srcKind |-> "", srcName |-> << >>,
    srcNs |-> "nil", srcNsVal |-> << >>,
    pbPtr |-> FALSE, subst |-> << >> ]

MergeMap(old, new) ==
  [ k \in (DOMAIN old) \cup (DOMAIN new) |-> IF k \in DOMAIN new THEN new[k] ELSE old[k] ]

\* apiVersion, kind and metadata of a document decoded into doc
DecodeMeta(y, d) ==
  [ d EXCEPT !.api = IF y.api # None THEN y.api[1] ELSE @,
             !.kind = IF y.kind # None THEN y.kind[1] ELSE @,
             !.name = IF y.name # None THEN y.name[1] ELSE @,
             !.nsPtr = (y.namespace # None) \/ @,
             !.ns = IF y.namespace # None THEN y.namespace[1] ELSE @ ]

\* spec.path and spec.postBuild.substitute
DecodePath(y, d) ==
  [ d EXCEPT !.pathPtr = (y.path # None) \/ @,
             !.path = IF y.path # None THEN y.path[1] ELSE @,
             !.pbPtr = (y.substitute # None) \/ @,
             !.subst = IF y.substitute # None THEN MergeMap(@, y.substitute[1]) ELSE @ ]

\* spec.sourceRef: a namespace is written through the pointer doc already
\* holds, which may be the pointer Metadata.Namespace holds as well.
DecodeSource(r, d) ==
  [ d EXCEPT !.srcPtr = TRUE,
             !.srcKind = IF r.kind # None THEN r.kind[1] ELSE @,
             !.srcName = IF r.name # None THEN r.name[1] ELSE @,
             !.ns = IF r.namespace # None /\ d.srcNs = "meta" THEN r.namespace[1] ELSE @,
             !.srcNs = IF r.namespace # None /\ d.srcNs = "nil" THEN "own" ELSE @,
             !.srcNsVal = IF r.namespace # None /\ d.srcNs # "meta"
                            THEN r.namespace[1] ELSE @ ]

DecodeSpec(y, d) ==
  IF y.sourceRef = None THEN d ELSE DecodeSource(y.sourceRef[1], d)

\* dec.Decode(&doc): doc is not reset between documents.  A field the
\* document gives is written, through the pointer the field already holds
\* when it holds one; a field the document does not give keeps its value.
Decode(y, d) == DecodePath(y, DecodeSpec(y, DecodeMeta(y, d)))

\* doc.Spec.Source.Namespace = doc.Metadata.Namespace when the former is nil:
\* from then on the two fields hold the same pointer.
AliasNamespace(e) ==
  IF e.srcPtr /\ e.srcNs = "nil" /\ e.nsPtr THEN [ e EXCEPT !.srcNs = "meta" ] ELSE e

\* The pointers the copy of doc appended to the store holds
Appended(type, e) ==
  [ type |-> type, name |-> e.name, kind |-> e.kind, nsPtr |-> e.nsPtr,
    pathPtr |-> type = "kustomization" /\ e.pathPtr,
    srcPtr |-> type = "kustomization" /\ e.srcPtr,
    pbPtr |-> type = "kustomization" /\ e.pbPtr ]

RECURSIVE ParseDocs(_, _, _)
ParseDoc(rest, e, outs) ==
  IF e.api = kustomizationApi
    THEN ParseDocs(rest, AliasNamespace(e), Append(outs, Appended("kustomization", e)))
  ELSE IF e.api = sourceApi
    THEN ParseDocs(rest, e, Append(outs, Appended("source", e)))
  ELSE ParseDocs(rest, e, outs)

\* The loop of parseYaml: the state of doc after the last document and, for
\* every record appended, the pointers the copy of doc held at that moment.
ParseDocs(docs, d, outs) ==
  IF docs = << >> THEN [ doc |-> d, outs |-> outs ]
  ELSE ParseDoc(Tail(docs), Decode(Head(docs), d), outs)

\* What the pointers of an appended record denote once the file is decoded.
SourceRefOf(d) ==
  [ kind |-> d.srcKind, name |-> d.srcName,
    namespace |-> IF d.srcNs = "own" THEN Some(d.srcNsVal)
                  ELSE IF d.srcNs = "meta" THEN Some(d.ns) ELSE None ]

\* NewShortApi with a record that starts as Complete
NewShortApiComplete(o, d, id, path) ==
  [ id |-> id, kind |-> o.kind, name |-> o.name,
    namespace |-> IF o.nsPtr THEN Some(d.ns) ELSE None,
    specPath |-> IF o.pathPtr THEN Some(d.path) ELSE None,
    sourceRef |-> IF o.srcPtr THEN Some(SourceRefOf(d)) ELSE None,
    postBuild |-> IF o.pbPtr THEN Some(d.subst) ELSE None,
    children |-> << >>,
    filepath |-> TrimPrefix(path, Root \o << "/" >>),
    ftype |-> "Complete", kustomize |-> << >>, parent |-> 0, source |-> 0 ]

\* A shortApi as parseYaml appends it: ftype Base, no children, no parent.  The
\* field root (always m.root) is left out.
NewShortApi(o, d, id, path) ==
  [ id |-> id, kind |-> o.kind, name |-> o.name,
    namespace |-> IF o.nsPtr THEN Some(d.ns) ELSE None,
    specPath |-> IF o.pathPtr THEN Some(d.path) ELSE None,
    sourceRef |-> IF o.srcPtr THEN Some(SourceRefOf(d)) ELSE None,
    postBuild |-> IF o.pbPtr THEN Some(d.subst) ELSE None,
    children |-> << >>,
    filepath |-> TrimPrefix(path, Root \o << "/" >>),
    ftype |-> "Base", kustomize |-> << >>, parent |-> 0, source |-> 0 ]

NewShortSource(o, d, id, path) ==
  [ id |-> id, kind |-> o.kind, name |-> o.name,
    namespace |-> IF o.nsPtr THEN Some(d.ns) ELSE None,
    children |-> << >>, filepath |-> path, parent |-> 0 ]

RECURSIVE Records(_, _, _, _, _)
\* The records of one type among outs, with ids counted from id.
Records(outs, d, id, path, type) ==
  IF outs = << >> THEN << >>
  ELSE IF Head(outs).type # type THEN Records(Tail(outs), d, id + 1, path, type)
  ELSE << IF type = "source" THEN NewShortSource(Head(outs), d, id, path)
          ELSE NewShortApi(Head(outs), d, id, path) >>
       \o Records(Tail(outs), d, id + 1, path, type)

ParsedRecords(r, path, id) ==
  [ kustomizations |-> Records(r.outs, r.doc, id, path, "kustomization"),
    sources |-> Records(r.outs, r.doc, id, path, "source"),
    count |-> Len(r.outs) ]

\* parseYamlFromFile: a file that cannot be read gives no record.  id stands
\* for the fresh uuids.
parseYamlFromFile(t, path, id) ==
  IF ~FileAt(t, path).readable
    THEN [ kustomizations |-> << >>, sources |-> << >>, count |-> 0 ]
    ELSE ParsedRecords(ParseDocs(FileAt(t, path).docs, ZeroDoc, << >>), path, id)

(***************************************************************************)
(* The cluster forest                                                      *)
(***************************************************************************)

commonNamespaces == { W_fluxsystem, W_default }

\* The first capture of the regular expression for one path segment: the
\* marker the segment ends with, or the empty string.
Marker(seg) ==
  IF HasSuffix(seg, W_clusters) THEN W_clusters
  ELSE IF HasSuffix(seg, W_hub) THEN W_hub
  ELSE << >>

RECURSIVE FindAllSubmatch(_, _)
\* re.FindAllStringSubmatch for (?:[^/]*(clusters|hub))/([^/]+): the matches
\* from the left, without overlap, as pairs of the two captures.  A match is a
\* segment that ends with a marker, followed by a non-empty segment.
FindAllSubmatch(segs, i) ==
  IF i >= Len(segs) THEN << >>
  ELSE IF Marker(segs[i]) # << >> /\ segs[i + 1] # << >>
    THEN << << Marker(segs[i]), segs[i + 1] >> >> \o FindAllSubmatch(segs, i + 2)
  ELSE FindAllSubmatch(segs, i + 1)

RECURSIVE MatchNames(_, _, _)
\* The loop over the matches: the cluster names and the path as trimmed.
MatchNames(matches, names, path) ==
  IF matches = << >> THEN [ clusters |-> names, path |-> path ]
  ELSE IF matches[1][2] \in commonNamespaces
    THEN MatchNames(Tail(matches), Append(names, matches[1][1]),
                    TrimSuffix(path, matches[1][2]))
  ELSE MatchNames(Tail(matches), Append(names, matches[1][2]), path)

NewCluster(name, path) == [ name |-> name, filepath |-> path, children |-> << >> ]

\* The positions of the children of node c with the given name
ChildrenNamed(nodes, c, name) ==
  { i \in 1..Len(nodes[c].children) : nodes[nodes[c].children[i]].name = name }

RECURSIVE Add(_, _, _, _)
AddChild(nodes, c, rest, path, is) ==
  IF is # { } THEN Add(nodes, nodes[c].children[CHOOSE i \in is : \A j \in is : i <= j],
                       rest, path)
  ELSE [ Append(nodes, NewCluster(rest[1], path))
           EXCEPT ![c].children = Append(@, Len(nodes) + 1) ]

\* cluster.Add on node c of the heap nodes: the heap afterwards.
Add(nodes, c, entries, path) ==
  IF entries = << >> THEN nodes
  ELSE IF entries[1] = nodes[c].name /\ Len(entries) > 1
    THEN AddChild(nodes, c, Tail(entries), path, ChildrenNamed(nodes, c, entries[2]))
  ELSE nodes

RECURSIVE AddToRoots(_, _, _, _, _)
\* The loop over m.clusters of checkClusterPath.
AddToRoots(nodes, roots, i, entries, path) ==
  IF i > Len(roots) THEN nodes
  ELSE IF nodes[roots[i]].name = entries[1]
    THEN AddToRoots(Add(nodes, roots[i], entries, path), roots, i + 1, entries, path)
  ELSE AddToRoots(nodes, roots, i + 1, entries, path)

AddClusters(forest, r) ==
  IF r.clusters = << >> THEN forest
  ELSE IF \E i \in 1..Len(forest.clusters) :
            forest.nodes[forest.clusters[i]].name = r.clusters[1]
    THEN [ forest EXCEPT !.nodes = AddToRoots(@, forest.clusters, 1, r.clusters, r.path) ]
  ELSE [ clusters |-> Append(forest.clusters, Len(forest.nodes) + 1),
         nodes |-> Append(forest.nodes, NewCluster(r.clusters[1], r.path)) ]

\* The part of checkClusterPath before the mutex is taken: the candidate
\* names and the path to record for a visited path, no name for a hidden path
\* or one below bases/.
Candidate(path) ==
  IF Contains(path, << "/", "." >>) \/ Contains(path, << "b", "a", "s", "e", "s", "/" >>)
    THEN [ clusters |-> << >>, path |-> path ]
  ELSE MatchNames(FindAllSubmatch(Split(TrimPrefix(path, Root \o << "/" >>)), 1),
                  << >>, path)

CheckTrimmed(forest, path) == AddClusters(forest, Candidate(path))

\* checkClusterPath: the forest (the root list and the heap of nodes) after
\* the call for one visited path.
checkClusterPath(forest, path0) == CheckTrimmed(forest, TrimRight(path0, "/"))


(***************************************************************************)
(* shortApi and shortSource accessors                                      *)
(***************************************************************************)

\* shortApi.GetName
GetName(k) == TrimSpace(k.name)

\* shortApi.GetNamespace
GetNamespace(k) == IF k.namespace = None THEN << >> ELSE TrimSpace(k.namespace[1])

\* shortSource.GetNamespace
SourceGetNamespace(src) == IF src.namespace = None THEN << >> ELSE src.namespace[1]

\* shortApi.GetPath
GetPath(k) == Abs(Join(Root, k.filepath))

\* shortApi.GetAbsoluteSpecPath
GetAbsoluteSpecPath(k) ==
  IF k.specPath = None THEN << >> ELSE Abs(Join(Root, k.specPath[1]))

\* shortApi.GetSourceName
GetSourceName(k) == k.sourceRef[1].name

\* shortApi.GetSourceNamespace
GetSourceNamespace(k) ==
  IF k.sourceRef[1].namespace = None THEN GetNamespace(k)
  ELSE k.sourceRef[1].namespace[1]

(***************************************************************************)
(* Substitution                                                            *)
(***************************************************************************)

\* One iteration of the loop of ParseSubstitutions, for the key k.
SubstituteKey(where, k, v) == ReplaceAll(where, << "$", "{" >> \o k \o << "}" >>, v)

RECURSIVE SubstituteInOrder(_, _, _)
\* ParseSubstitutions when the range over the map visits the keys in the order
\* given.
SubstituteInOrder(where, substitutions, order) ==
  IF order = << >> THEN where
  ELSE SubstituteInOrder(SubstituteKey(where, Head(order), substitutions[Head(order)]),
                         substitutions, Tail(order))

\* The orders in which a range can visit the elements of S
Perms(S) ==
  { f \in [1..Cardinality(S) -> S] : \A i, j \in 1..Cardinality(S) : i # j => f[i] # f[j] }

\* ParseSubstitutions: the results over the orders in which Go may range over
\* the map.
ParseSubstitutions(where, substitutions) ==
  { SubstituteInOrder(where, substitutions, o) : o \in Perms(DOMAIN substitutions) }


(***************************************************************************)
(* Linking (followFluxKustomization, followKustomization)                  *)
(***************************************************************************)

NoKustomization ==
  [ ok |-> FALSE, fp |-> << >>, kust |-> [ resources |-> << >>, patches |-> << >> ] ]

\* The content of the layering file at p, when there is one to read
ReadKustomization(t, p) ==
  IF p \notin FilePaths(t) THEN NoKustomization
  ELSE IF ~FileAt(t, p).readable THEN NoKustomization
  ELSE [ ok |-> TRUE, fp |-> p,
         kust |-> IF FileAt(t, p).kust = << >> THEN NoKustomization.kust
                  ELSE FileAt(t, p).kust[1] ]

FirstExisting(t, a, b) == IF StatOk(t, a) THEN a ELSE b

\* kustomize.GetKustomization: the path of the layering file beside path and
\* its content, ok = FALSE standing for the nil result.
GetKustomization(t, path) ==
  ReadKustomization(t, FirstExisting(t, Join(Dir(path), Kustomization \o Yaml),
                                        Join(Dir(path), Kustomization \o Yml)))

InSeq(x, seq) == \E i \in 1..Len(seq) : seq[i] = x

\* The path followFluxKustomization looks beside
RootedPath(k) == IF HasPrefix(k.filepath, Root) THEN k.filepath ELSE Join(Root, k.filepath)

Classified(k, base, g) ==
  [ k EXCEPT !.kustomize = g.fp,
             !.ftype = IF ~g.ok \/ InSeq(base, g.kust.resources) THEN "Complete"
                       ELSE IF InSeq(base, g.kust.patches) THEN "Patch"
                       ELSE @ ]

\* The classification step of followFluxKustomization
Classify(t, k) == Classified(k, Base(RootedPath(k)), GetKustomization(t, RootedPath(k)))

RECURSIVE BindResource(_, _, _, _)
\* The two loops of followKustomization for one resolved resource path rp:
\* kustomizations whose filepath is rp become children of index, and a source
\* whose filepath is rp becomes the source of index.
BindResource(st, index, rp, j) ==
  IF j <= Len(st.kustomizations) THEN
    BindResource(
      IF st.kustomizations[j].filepath = rp
        THEN [ st EXCEPT !.kustomizations[j].parent = index,
                         !.kustomizations[index].children = Append(@, j) ]
        ELSE st, index, rp, j + 1)
  ELSE IF j <= Len(st.kustomizations) + Len(st.sources) THEN
    BindResource(
      IF st.sources[j - Len(st.kustomizations)].filepath = rp
        THEN [ st EXCEPT !.sources[j - Len(st.kustomizations)].parent = index,
                         !.kustomizations[index].source = j - Len(st.kustomizations) ]
        ELSE st, index, rp, j + 1)
  ELSE st

\* Following a directory by reading the layering file in it
FollowedLayeringFile(rp) == Join(rp, Kustomization \o Yaml)

\* The path the recursive call of followKustomization gets for a resource that
\* is the directory rp: the directory itself.
FollowedPath(rp) == rp

RECURSIVE followKustomization(_, _, _, _)
RECURSIVE FollowResources(_, _, _, _, _, _)
\* One resource, resolved to rp: a directory is followed and ends the call.
FollowResource(t, st, index, path, docs, resources, rp) ==
  IF IsDir(t, rp) THEN followKustomization(t, st, index, FollowedPath(rp))
  ELSE FollowResources(t, BindResource(st, index, rp, 1), index, path, docs, Tail(resources))

\* The loop over the resources of the documents of one layering file.
FollowResources(t, st, index, path, docs, resources) ==
  IF resources = << >> THEN
    IF docs = << >> THEN st
    ELSE FollowResources(t, st, index, path, Tail(docs), Head(docs).resources)
  ELSE FollowResource(t, st, index, path, docs, resources,
                      Abs(Join(path, Head(resources))))

\* followKustomization for the file at path: a path that cannot be read as a
\* file changes nothing.
followKustomization(t, st, index, path) ==
  IF path \notin FilePaths(t) THEN st
  ELSE IF ~FileAt(t, path).readable THEN st
  ELSE FollowResources(t, st, index, path, FileAt(t, path).kust, << >>)

First(S) == IF S = { } THEN 0 ELSE CHOOSE i \in S : \A j \in S : i <= j

\* FirstWithPath had the walked path been compared with the absolute path of
\* the record: a file below its own build directory would bind to itself.
FirstWithAbsolutePath(ks, path) == First({ i \in 1..Len(ks) : GetPath(ks[i]) = path })

\* The index of the first kustomization whose filepath is path, or 0
FirstWithPath(ks, path) == First({ i \in 1..Len(ks) : ks[i].filepath = path })

\* The substitution of the parent index applied to the child i it has just
\* bound: the name, and the build path joined to the root.  The written path
\* is the string Spec.Path points at, which the records decoded from the same
\* file share.  A child without a build path is a nil dereference.
SubstituteChild(st, index, i, name, path) ==
  [ st EXCEPT
      !.kustomizations = [ n \in 1..Len(@) |->
         IF @[n].filepath = @[i].filepath /\ @[n].specPath # None
           THEN [ @[n] EXCEPT !.specPath = Some(path), !.name = IF n = i THEN name ELSE @ ]
           ELSE [ @[n] EXCEPT !.name = IF n = i THEN name ELSE @ ] ],
      !.panic = @ \/ st.kustomizations[i].specPath = None ]

Stem(filename) == SubSeq(filename, 1, Len(filename) - Len(Ext(filename)))

\* The child i appended to the children of index
Bound(st, index, i) ==
  [ st EXCEPT !.kustomizations[index].children = Append(@, i),
              !.kustomizations[i].parent = index ]

Substituted(b, index, i, pb) ==
  IF pb = None THEN { b }
  ELSE { SubstituteChild(b, index, i, name, spath) :
           name \in ParseSubstitutions(b.kustomizations[i].name, pb[1]),
           spath \in ParseSubstitutions(
              Join(Root, IF b.kustomizations[i].specPath = None THEN << >>
                         ELSE b.kustomizations[i].specPath[1]), pb[1]) }

MarkSources(st, index, path) ==
  [ st EXCEPT !.sources = [ s \in 1..Len(@) |->
      IF @[s].filepath = path THEN [ @[s] EXCEPT !.parent = index ] ELSE @[s] ] ]

PathFnRegular(st, index, path, i) ==
  IF i # 0 THEN Substituted(Bound(st, index, i), index, i, st.kustomizations[index].postBuild)
  ELSE { MarkSources(st, index, path) }

\* pathFn for one regular file found below the build directory: the states it
\* can leave (one for each order the substitution map can be ranged over).
PathFn(t, st, index, path) ==
  IF Stem(Base(path)) = Kustomization THEN { followKustomization(t, st, index, path) }
  ELSE PathFnRegular(st, index, path, FirstWithPath(st.kustomizations, path))

RECURSIVE WalkFiles(_, _, _, _)
\* The callbacks of fastwalk.Walk over the build directory, for the files in
\* the order given.
WalkFiles(t, sts, index, order) ==
  IF order = << >> THEN sts
  ELSE WalkFiles(t, UNION { PathFn(t, st, index, Head(order)) : st \in sts },
                 index, Tail(order))

\* The regular files at or below path
FilesUnder(t, path) ==
  { p \in FilePaths(t) : p = path \/ HasPrefix(p, path \o << "/" >>) }

FollowWalk(t, st, index, kpath) ==
  IF ~StatOk(t, kpath) THEN { [ st EXCEPT !.err = TRUE ] }
  ELSE UNION { WalkFiles(t, { st }, index, order) : order \in Perms(FilesUnder(t, kpath)) }

FollowSpecPath(t, st, index) ==
  IF st.kustomizations[index].specPath = None THEN { st }
  ELSE FollowWalk(t, st, index, GetAbsoluteSpecPath(st.kustomizations[index]))

\* followFluxKustomization: the states it can leave.  err tells that the walk
\* of the build directory failed.
followFluxKustomization(t, st, index) ==
  FollowSpecPath(t, [ st EXCEPT !.kustomizations[index] = Classify(t, @) ], index)

(***************************************************************************)
(* Source binding                                                          *)
(***************************************************************************)

SourceMatches(k, src) ==
  /\ k.sourceRef[1].kind = src.kind
  /\ GetSourceName(k) = src.name
  /\ GetSourceNamespace(k) = SourceGetNamespace(src)

\* The duplicate check of setSource
HasChild(ks, src, k) ==
  \E n \in 1..Len(src.children) :
    /\ GetName(ks[src.children[n]]) = GetSourceName(k)
    /\ GetNamespace(ks[src.children[n]]) = GetSourceNamespace(k)

RECURSIVE setSourceFrom(_, _, _)
\* The loop of setSource from source s on
setSourceFrom(st, index, s) ==
  IF s > Len(st.sources) THEN st
  ELSE IF st.kustomizations[index].sourceRef = None THEN st
  ELSE IF /\ SourceMatches(st.kustomizations[index], st.sources[s])
          /\ ~HasChild(st.kustomizations, st.sources[s], st.kustomizations[index])
    THEN setSourceFrom([ st EXCEPT !.sources[s].children = Append(@, index),
                                   !.kustomizations[index].source = s ],
                       index, s + 1)
  ELSE setSourceFrom(st, index, s + 1)

setSource(st, index) == setSourceFrom(st, index, 1)


(***************************************************************************)
(* Reparenting, sorting, listing                                           *)
(***************************************************************************)

\* n nil pointers
Nils(n) == [ i \in 1..n |-> 0 ]

\* Absorb without the assignment m.clusters[j] = nil: the absorbed root stays
\* in the root list.
AbsorbKeepingRoot(roots, nodes, i, j) ==
  [ clusters |-> roots,
    nodes |-> [ Append(nodes,
                  [ name |-> nodes[roots[j]].name,
                    filepath |-> nodes[roots[j]].filepath,
                    children |-> Nils(Len(nodes[roots[j]].children))
                                   \o nodes[roots[j]].children ])
                EXCEPT ![roots[i]].children = Append(@, Len(nodes) + 1) ] ]

\* The copy of root j appended to the children of root i; root j set to nil.
Absorb(roots, nodes, i, j) ==
  [ clusters |-> [ roots EXCEPT ![j] = 0 ],
    nodes |-> [ Append(nodes,
                  [ name |-> nodes[roots[j]].name,
                    filepath |-> nodes[roots[j]].filepath,
                    children |-> Nils(Len(nodes[roots[j]].children))
                                   \o nodes[roots[j]].children ])
                EXCEPT ![roots[i]].children = Append(@, Len(nodes) + 1) ] ]

RECURSIVE ReparentLoop(_, _, _, _)
\* The two nested loops of reparentClusters over the root list.
ReparentLoop(t, forest, i, j) ==
  IF i > Len(forest.clusters) THEN forest
  ELSE IF forest.clusters[i] = 0 \/ j > Len(forest.clusters)
    THEN ReparentLoop(t, forest, i + 1, 1)
  ELSE IF j = i \/ forest.clusters[j] = 0 THEN ReparentLoop(t, forest, i, j + 1)
  ELSE IF StatOk(t, Join(forest.nodes[forest.clusters[i]].filepath,
                         forest.nodes[forest.clusters[j]].name) \o Yaml)
    THEN ReparentLoop(t, Absorb(forest.clusters, forest.nodes, i, j), i, j + 1)
  ELSE ReparentLoop(t, forest, i, j + 1)

RECURSIVE InsertSorted(_, _, _)
\* The index x inserted into the sorted sequence of indices before the first
\* one it is less than: the step of a stable sort.  less[i][j] tells whether
\* element i is less than element j.
InsertSorted(sorted, x, less) ==
  IF sorted = << >> THEN << x >>
  ELSE IF less[x][Head(sorted)] THEN << x >> \o sorted
  ELSE << Head(sorted) >> \o InsertSorted(Tail(sorted), x, less)

RECURSIVE SortedIndices(_, _)
\* The indices 1..n in the order a stable sort leaves them in
SortedIndices(n, less) ==
  IF n = 0 THEN << >> ELSE InsertSorted(SortedIndices(n - 1, less), n, less)

Permuted(seq, order) == [ i \in 1..Len(seq) |-> seq[order[i]] ]

\* sort.SliceStable, slices.SortStableFunc
SortStable(seq, less) == Permuted(seq, SortedIndices(Len(seq), less))

\* The comparison of the sort of the root list
ClusterLess(names) ==
  [ i \in 1..Len(names) |-> [ j \in 1..Len(names) |-> StrCompare(names[i], names[j]) < 0 ] ]

SortClusters(newclusters, nodes) ==
  [ clusters |-> SortStable(newclusters,
                   ClusterLess([ i \in 1..Len(newclusters) |-> nodes[newclusters[i]].name ])),
    nodes |-> nodes ]

\* The root list without its nil entries, sorted
Compact(f) == SortClusters(SelectSeq(f.clusters, LAMBDA v : v # 0), f.nodes)

\* reparentClusters
reparentClusters(t, forest) == Compact(ReparentLoop(t, forest, 1, 1))

\* CompareShortApi with the names compared the other way round
CompareShortApiReversed(a, b) ==
  IF Len(a.children) = Len(b.children) THEN StrCompare(GetName(b), GetName(a))
  ELSE IntCompare(Len(b.children), Len(a.children))

\* The comparison function of the sort in walk
CompareShortApi(a, b) ==
  IF Len(a.children) = Len(b.children) THEN StrCompare(GetName(a), GetName(b))
  ELSE IntCompare(Len(b.children), Len(a.children))

\* The sort of m.kustomizations in walk: the records move, the pointers held in
\* children, parent and source fields keep naming slots.
SortKustomizations(ks) ==
  SortStable(ks, [ i \in 1..Len(ks) |-> [ j \in 1..Len(ks) |->
                     CompareShortApi(ks[i], ks[j]) < 0 ] ])

\* Items without the test of the classification
ItemsUnfiltered(ks) == ks

\* Model.Items: copies of the records that are not Base, in store order
Items(ks) == SelectSeq(ks, LAMBDA k : k.ftype # "Base")


(***************************************************************************)
(* The run: Model.walk                                                     *)
(***************************************************************************)

\* How often the harness of a rerun specification calls a pass again
MaxReruns == 1

\* The longest input of the substitution harness, in pieces
MaxParts == 3

\* The goroutines of fastwalk
MaxWorkers == 2

\* Messages of commands in flight at a time
MaxMsgs == 1

VARIABLES
  tree,            \* the repository tree on disk (an index into Trees)
  pc,              \* where walk stands
  pending,         \* entries fastwalk has found and not yet passed to rootFn
  walkErr,         \* a callback of the crawl has returned an error
  kustomizations,  \* m.kustomizations
  sources,         \* m.sources
  clusters,        \* m.clusters: the roots, as indices into nodes
  nodes,           \* the cluster structs allocated so far
  nextId,          \* the ids given out
  linked,          \* the loop variable of the linking loop: records done
  cmds,            \* the commands collected by walk
  ready,           \* the local ready of walk
  emitted,         \* the messages of the command walk has returned
  reruns,          \* calls made by a rerun harness
  where,           \* ParseSubstitutions: the string being rewritten
  input,           \* ParseSubstitutions: the argument where
  substitutions,   \* ParseSubstitutions: the map
  todo,            \* ParseSubstitutions: keys the range has not visited yet
  lock,            \* m.Mutex: the worker that holds it, 0 when it is free
  workers,         \* the goroutines of fastwalk: what each one is doing
  sidebar,         \* the flux Model as the program sees it: list and lasttab
  primary,         \* the tabview Model: activeTab and, of each tab content, the
                   \* focus, the splash and what its viewport was given to show
  focus,           \* manager Model.focus
  msgs,            \* messages of commands the event loop has not delivered yet
  delivered,       \* the messages of walk that have been delivered
  selection,       \* what the last call of FindSelected returned
  status,          \* the program: running, quit or ended by a panic
  output,          \* parseFluxDiff: the lines of its input
  scanner,         \* parseFluxDiff: the lines the scanner has not returned yet
  results,         \* parseFluxDiff: results
  currentEntry,    \* parseFluxDiff: currentEntry
  currentChange,   \* parseFluxDiff: currentChange
  lastChange,      \* parseFluxDiff: lastChange
  lastType,        \* parseFluxDiff: lastType
  lastChangeType,  \* parseFluxDiff: lastChangeType
  expected         \* parseFluxDiff: expected

vars == << tree, pc, pending, walkErr, kustomizations, sources, clusters, nodes,
           nextId, linked, cmds, ready, emitted, reruns,
           where, input, substitutions, todo, lock, workers,
           sidebar, primary, focus, msgs, delivered, selection, status,
           output, scanner, results, currentEntry, currentChange, lastChange,
           lastType, lastChangeType, expected >>

substVars == << where, input, substitutions, todo >>

diffVars == << output, scanner, results, currentEntry, currentChange, lastChange,
               lastType, lastChangeType, expected >>

\* The variables of the functions that are followed on their own
pureVars == << substVars, diffVars >>

workVars == << lock, workers >>

uiVars == << sidebar, primary, focus, msgs, delivered, selection, status >>

(***************************************************************************)
(* The user interface: manager, tabview, yamlview, diffview, flux sidebar  *)
(***************************************************************************)

TabKustomize == "Kustomization"
TabSource == "Source"
TabFluxBuild == "Flux Build"
TabFluxDiff == "Flux Diff"

\* tabview.New: the tabs in the order shown
Tabs == << TabKustomize, TabSource, TabFluxBuild, TabFluxDiff >>

\* components.FocusType as yamlview and diffview number it
NoFocus == 0
QueryFocus == 1
FilterFocus == 1
ViewportFocus == 2

\* tabview.New: the contents that are created with a query input or a filter
ShowQuery == [ t \in Range(Tabs) |-> t \in { TabFluxBuild, TabFluxDiff } ]

\* yamlview Model.NextFocus
YamlNextFocus(f, showQuery) ==
  IF f = NoFocus THEN (IF showQuery THEN QueryFocus ELSE ViewportFocus)
  ELSE IF f = QueryFocus THEN ViewportFocus
  ELSE NoFocus

\* yamlview Model.PreviousFocus
YamlPreviousFocus(f, showQuery) ==
  IF f = NoFocus THEN ViewportFocus
  ELSE IF f = QueryFocus THEN NoFocus
  ELSE (IF showQuery THEN QueryFocus ELSE NoFocus)

\* diffview Model.NextFocus; filter is m.filter # nil
DiffNextFocus(f, showFilter, filter) ==
  IF f = NoFocus THEN (IF showFilter /\ filter THEN FilterFocus ELSE ViewportFocus)
  ELSE IF f = FilterFocus THEN ViewportFocus
  ELSE NoFocus

\* diffview Model.PreviousFocus
DiffPreviousFocus(f, showFilter, filter) ==
  IF f = NoFocus THEN ViewportFocus
  ELSE IF f = FilterFocus THEN NoFocus
  ELSE (IF showFilter /\ filter THEN FilterFocus ELSE NoFocus)

\* The tab whose content is shown
ActiveTab(p) == Tabs[p.activeTab + 1]

\* A tab content that never leaves the focus it has
ContentStuck(p, forward) == p.tabContent[ActiveTab(p)]

\* NextFocus (forward) or PreviousFocus of the content of the active tab
ContentFocus(p, forward) ==
  IF ActiveTab(p) = TabFluxDiff
    THEN IF forward
           THEN DiffNextFocus(p.tabContent[TabFluxDiff], ShowQuery[TabFluxDiff], p.filter)
           ELSE DiffPreviousFocus(p.tabContent[TabFluxDiff], ShowQuery[TabFluxDiff], p.filter)
    ELSE IF forward
           THEN YamlNextFocus(p.tabContent[ActiveTab(p)], ShowQuery[ActiveTab(p)])
           ELSE YamlPreviousFocus(p.tabContent[ActiveTab(p)], ShowQuery[ActiveTab(p)])

\* tabview Model.NextFocus and PreviousFocus: the model after the call; the
\* value returned is the focus of the content of the active tab.
TabviewFocus(p, forward) ==
  [ p EXCEPT !.tabContent[ActiveTab(p)] = ContentFocus(p, forward),
             !.focus = ContentFocus(p, forward) # NoFocus ]

\* tabview.New
NewTabview ==
  [ activeTab |-> 0, focus |-> FALSE, filter |-> FALSE,
    tabContent |-> [ t \in Range(Tabs) |-> NoFocus ],
    splash |-> [ t \in Range(Tabs) |-> TRUE ],
    shown |-> [ t \in Range(Tabs) |-> None ] ]

\* flux.New: no list yet
NewSidebar == [ list |-> None, lasttab |-> TabKustomize, focus |-> FALSE ]

\* Messages
KeyMsg(k) == [ type |-> "KeyMsg", key |-> k ]
MouseMsg(button, action, at) ==
  [ type |-> "MouseMsg", button |-> button, action |-> action, at |-> at ]
TabChangedMsg(t) == [ type |-> "TabChangedMsg", tab |-> t ]
\* A flux command started by Build or Diff for the selection api while the
\* sidebar had lasttab: its output is that of the build or diff of api.
FluxExecCmd(lasttab, api) == [ type |-> "FluxExecCmd", tab |-> lasttab, api |-> api ]

\* components.FileCmd: the content is read when the command is made
FileCmd(lasttab, api, ok) == [ type |-> "FileMsg", tab |-> lasttab, api |-> api, ok |-> ok ]

\* What a call into the sidebar gives: the model, the commands, and whether
\* the call ended in a panic.
Outcome(s, sel, cs, panic) == [ sidebar |-> s, selection |-> sel, cmds |-> cs, panic |-> panic ]

\* list.Model.SelectedItem: nil when the index is outside the visible items
SelectedItem(l) == IF l.index < Len(l.items) THEN Some(l.items[l.index + 1]) ELSE None

\* The first record of the store with the given path and name, 0 if none
FirstNamed(ks, path, name) ==
  First({ i \in 1..Len(ks) : GetPath(ks[i]) = path /\ GetName(ks[i]) = name })

\* The record of the store that has the id of the item, 0 if none
FindRecordById(ks, item) == First({ i \in 1..Len(ks) : ks[i].id = item.id })

\* The loop of FindSelected over m.kustomizations
FindRecord(ks, item) == FirstNamed(ks, GetPath(item), GetName(item))

\* The switch of FindSelected over m.lasttab; api names a record of the store
\* or a Source by its slot, slot 0 is nil.
Selected(ks, lasttab, i) ==
  IF i = 0 THEN [ api |-> None, ok |-> FALSE ]
  ELSE IF lasttab = TabSource
    THEN [ api |-> Some([ source |-> ks[i].source ]), ok |-> ks[i].source # 0 ]
    ELSE [ api |-> Some([ kustomization |-> i ]), ok |-> TRUE ]

\* Model.FindSelected: None is the panic of m.list.SelectedItem() on a nil list
\* or of the type assertion on a nil item.
FindSelected(s, ks) ==
  IF s.list = None THEN None
  ELSE IF SelectedItem(s.list[1]) = None THEN None
  ELSE Some(Selected(ks, s.lasttab, FindRecord(ks, SelectedItem(s.list[1])[1])))

\* The commands of defaultHandler and of the TabChangedMsg case for a selection
SelectionCmds(lasttab, sel) ==
  IF ~sel.ok THEN << >>
  ELSE IF lasttab \in { TabFluxBuild, TabFluxDiff } THEN << FluxExecCmd(lasttab, sel.api) >>
  ELSE << FileCmd(lasttab, sel.api, sel.ok) >>

\* The handlers after FindSelected has returned sel or ended in a panic (None)
Chosen(s, sel) ==
  IF sel = None THEN Outcome(s, None, << >>, TRUE)
  ELSE Outcome(s, sel, SelectionCmds(s.lasttab, sel[1]), FALSE)

\* The part of the handlers after a change of the list or of lasttab
Select(s, ks) == Chosen(s, FindSelected(s, ks))

\* list.Model.CursorUp, CursorDown and Select on the items shown
Cursor(l, move) ==
  IF move = "up" THEN [ l EXCEPT !.index = IF @ > 0 THEN @ - 1 ELSE 0 ]
  ELSE IF move = "down" THEN [ l EXCEPT !.index = IF @ + 1 < Len(l.items) THEN @ + 1 ELSE @ ]
  ELSE l

\* Model.defaultHandler; move is what the message makes the list do
defaultHandler(s, ks, move) ==
  IF s.list = None THEN Outcome(s, None, << >>, TRUE)
  ELSE Select([ s EXCEPT !.list = Some(Cursor(s.list[1], move)) ], ks)

\* The list of the ModelReadyMsg case: newlist and SetItems
newlist(ks) == [ items |-> Items(ks), index |-> 0 ]

\* The end of the ModelReadyMsg case: FileCmd reads the content of what was
\* found whether ok or not, a panic when that is a nil Source.
Loaded(o) ==
  IF o.panic THEN o
  ELSE [ o EXCEPT !.cmds = << FileCmd(o.sidebar.lasttab, o.selection[1].api,
                                       o.selection[1].ok) >>,
                  !.panic = o.selection[1].api \in { None, Some([ source |-> 0 ]) } ]

\* The MouseMsg case of the sidebar's Update
SidebarMouse(s, ks, msg) ==
  IF msg.button \notin { "wheelup", "wheeldown", "left" }
       \/ (msg.button = "left" /\ msg.action # "release")
    THEN Outcome(s, selection, << >>, FALSE)
  ELSE IF s.list = None THEN Outcome(s, None, << >>, TRUE)
  ELSE IF msg.button = "wheelup" THEN defaultHandler(s, ks, "up")
  ELSE IF msg.button = "wheeldown" THEN defaultHandler(s, ks, "down")
  ELSE IF msg.at \notin 1..Len(s.list[1].items)
    THEN Outcome(s, selection, << >>, FALSE)
  ELSE defaultHandler([ s EXCEPT !.list = Some([ s.list[1] EXCEPT !.index = msg.at - 1 ]) ],
                      ks, "none")

\* flux Model.Update
SidebarUpdate(s, ks, msg) ==
  IF msg.type = "MouseMsg" THEN SidebarMouse(s, ks, msg)
  ELSE IF msg.type = "ModelReadyMsg" THEN Loaded(Select([ s EXCEPT !.list = Some(newlist(ks)) ], ks))
  ELSE IF msg.type = "TabChangedMsg" THEN Select([ s EXCEPT !.lasttab = msg.tab ], ks)
  ELSE defaultHandler(s, ks, IF msg.type = "KeyMsg" THEN msg.key ELSE "none")

\* flux Model.Focus and Blur: SetDelegate on a nil list is a panic
SidebarFocus(s, f) ==
  IF s.list = None THEN Outcome(s, selection, << >>, TRUE)
  ELSE Outcome([ s EXCEPT !.focus = f ], selection, << >>, FALSE)

\* What a viewport shows: the content of a file or the output of flux for
\* the selection api, requested while the sidebar had the tab, or an error
Content(kind, msg) == Some([ kind |-> kind, tab |-> msg.tab, api |-> msg.api ])

\* yamlview and diffview Update for the messages that change what is shown:
\* the splash and the content of one tab after the message
ContentUpdate(tab, splash, shown, msg) ==
  IF msg.type = "TabChangedMsg" THEN [ splash |-> TRUE, shown |-> shown ]
  ELSE IF msg.type = "ModelErrorMsg" THEN [ splash |-> FALSE, shown |-> shown ]
  ELSE IF msg.type = "FluxExecMsg" THEN [ splash |-> FALSE, shown |-> Content("flux", msg) ]
  ELSE IF msg.type = "FileMsg" /\ tab # TabFluxDiff
    THEN [ splash |-> FALSE,
           shown |-> IF msg.ok THEN Content("file", msg) ELSE shown ]
  ELSE [ splash |-> splash, shown |-> shown ]

\* tabview Model.Update, the default case: the message goes to the content of
\* the active tab
TabviewDefault(p, msg) ==
  [ p EXCEPT
      !.splash[ActiveTab(p)] =
         ContentUpdate(ActiveTab(p), p.splash[ActiveTab(p)], p.shown[ActiveTab(p)], msg).splash,
      !.shown[ActiveTab(p)] =
         ContentUpdate(ActiveTab(p), p.splash[ActiveTab(p)], p.shown[ActiveTab(p)], msg).shown,
      !.filter = @ \/ (msg.type = "FluxExecMsg" /\ ActiveTab(p) = TabFluxDiff) ]

\* tabview Model.Update for a key: the model and the commands
TabviewKey(p, k) ==
  IF k = ":" THEN [ p EXCEPT !.activeTab = Min(@ + 1, Len(Tabs) - 1) ]
  ELSE IF k = ";" THEN [ p EXCEPT !.activeTab = IF @ > 0 THEN @ - 1 ELSE 0 ]
  ELSE p


\* A goroutine of fastwalk that is in no callback
Idle == [ at |-> "idle" ]

ModelErrorMsg == [ type |-> "ModelErrorMsg", ready |-> FALSE ]
ModelFatalMsg == [ type |-> "ModelFatalMsg", ready |-> FALSE ]
ModelReadyMsg(r) == [ type |-> "ModelReadyMsg", ready |-> r ]

(***************************************************************************)
(* diffview: parseFluxDiff                                                 *)
(***************************************************************************)

ChangeIndicator == "±"
AdditionIndicator == "+"
DeletionIndicator == "-"
EntryIndicator == << "►", " " >>

Drifted == << " ", "d", "r", "i", "f", "t", "e", "d" >>

\* The locals of parseFluxDiff before the first line; panic tells that the
\* call has ended in a run-time panic.
ParserStart ==
  [ results |-> << >>, currentEntry |-> None, currentChange |-> None,
    lastChange |-> None, lastType |-> "TypeNone", lastChangeType |-> "None",
    expected |-> "", panic |-> FALSE ]

\* &ChangeSet{}
NewChangeSet == [ Addition |-> << >>, Deletion |-> << >> ]

\* *currentChange with *lastChange appended to its Changes if there is one
WithLastChange(cc, lc) ==
  IF lc = None THEN cc ELSE [ cc EXCEPT !.Changes = Append(@, lc[1]) ]

\* *currentEntry with the current change, if there is one, appended
WithCurrentChange(ce, cc, lc) ==
  IF cc = None THEN ce ELSE [ ce EXCEPT !.Changes = Append(@, WithLastChange(cc[1], lc)) ]

\* A line that is empty when trimmed
BlankLine(s) ==
  IF s.lastType # "Change" THEN s
  ELSE [ s EXCEPT
           !.currentEntry = IF s.currentChange = None THEN @
                            ELSE Some(WithCurrentChange(@[1], s.currentChange, s.lastChange)),
           !.lastChange = IF s.currentChange = None THEN @ ELSE None,
           !.currentChange = None,
           !.lastChangeType = "None",
           !.lastType = "Empty" ]

\* The entry of a header line with the given title and parts
NewDiffEntry(title, parts) ==
  [ Title |-> TrimSpace(title), Kind |-> parts[1], Name |-> parts[3],
    Namespace |-> parts[2], Changes |-> << >> ]

\* A line that begins with the entry indicator: the current entry is appended
\* to the results as it is and a new one begins.  A title with fewer than
\* three parts is an index out of range.
HeaderParts(s, title, parts) ==
  IF Len(parts) < 3
    THEN [ s EXCEPT !.results = IF s.currentEntry = None THEN @
                                ELSE Append(@, s.currentEntry[1]),
                    !.panic = TRUE ]
    ELSE [ s EXCEPT !.results = IF s.currentEntry = None THEN @
                                ELSE Append(@, s.currentEntry[1]),
                    !.currentEntry = Some(NewDiffEntry(title, parts)),
                    !.lastType = "Entry" ]

HeaderLine(s, line) ==
  HeaderParts(s, TrimPrefix(line, EntryIndicator),
              Split(TrimSuffix(TrimPrefix(line, EntryIndicator), Drifted)))

\* lastChange.Addition and lastChange.Deletion appended to
Added(s, trimmed) == [ s EXCEPT !.lastChange[1].Addition = Append(@, trimmed) ]
Deleted(s, trimmed) == [ s EXCEPT !.lastChange[1].Deletion = Append(@, trimmed) ]

\* The case Change of the switch over lastType
ChangeLine(s, trimmed) ==
  IF s.expected = ChangeIndicator THEN
    IF trimmed[1] = AdditionIndicator
      THEN [ Added(s, trimmed) EXCEPT !.lastChangeType = "Addition" ]
    ELSE IF trimmed[1] = DeletionIndicator
      THEN [ Deleted(
               IF s.lastChangeType = "Addition"
                 THEN [ s EXCEPT !.currentChange[1].Changes = Append(@, s.lastChange[1]),
                                 !.lastChange = Some(NewChangeSet) ]
                 ELSE s, trimmed)
             EXCEPT !.lastChangeType = "Deletion" ]
    ELSE s
  ELSE IF s.expected = AdditionIndicator THEN Added(s, trimmed)
  ELSE IF s.expected = DeletionIndicator THEN Deleted(s, trimmed)
  ELSE s

\* The switch over lastType for a line that is neither empty nor a header
TextLine(s, trimmed) ==
  IF s.lastType \in { "Entry", "Empty" }
    THEN [ s EXCEPT !.lastType = "Key",
                    !.currentChange = Some([ Key |-> trimmed, Title |-> << >>,
                                             Changes |-> << >> ]) ]
  ELSE IF s.lastType = "Key"
    THEN [ s EXCEPT !.lastType = "Title",
                    !.currentChange[1].Title = trimmed,
                    !.expected = trimmed[1] ]
  ELSE IF s.lastType = "Title"
    THEN ChangeLine([ s EXCEPT !.lastType = "Change", !.lastChange = Some(NewChangeSet) ],
                    trimmed)
  ELSE IF s.lastType = "Change" THEN ChangeLine(s, trimmed)
  ELSE s

\* One iteration of the loop over the lines
Scanned(s, line) ==
  IF Len(TrimSpace(line)) = 0 THEN BlankLine(s)
  ELSE IF HasPrefix(line, EntryIndicator) THEN HeaderLine(s, line)
  ELSE TextLine(s, TrimSpace(line))

\* After the loop: the current entry is appended with what is left of the
\* current change
AtEof(s) ==
  IF s.currentEntry = None THEN s.results
  ELSE Append(s.results, WithCurrentChange(s.currentEntry[1], s.currentChange, s.lastChange))

RECURSIVE ScannedAll(_, _)
ScannedAll(s, lines) ==
  IF lines = << >> \/ s.panic THEN s ELSE ScannedAll(Scanned(s, Head(lines)), Tail(lines))

\* parseFluxDiff for an input with the given lines that does not panic
parseFluxDiff(lines) == AtEof(ScannedAll(ParserStart, lines))

\* No call of parseFluxDiff is under way
DiffIdle ==
  /\ output = << >>
  /\ scanner = << >>
  /\ results = ParserStart.results
  /\ currentEntry = ParserStart.currentEntry
  /\ currentChange = ParserStart.currentChange
  /\ lastChange = ParserStart.lastChange
  /\ lastType = ParserStart.lastType
  /\ lastChangeType = ParserStart.lastChangeType
  /\ expected = ParserStart.expected

\* Model.New followed by the start of Model.Init
Init ==
  /\ tree \in 1..Len(Trees)
  /\ pc = "walk"
  /\ pending = { Root }
  /\ walkErr = FALSE
  /\ kustomizations = << >>
  /\ sources = << >>
  /\ clusters = << >>
  /\ nodes = << >>
  /\ nextId = 1
  /\ linked = 0
  /\ cmds = << >>
  /\ ready = TRUE
  /\ emitted = << >>
  /\ reruns = 0
  /\ where = << >>
  /\ input = << >>
  /\ substitutions = << >>
  /\ todo = { }
  /\ lock = 0
  /\ workers = [ w \in 1..MaxWorkers |-> Idle ]
  /\ sidebar = NewSidebar
  /\ primary = NewTabview
  /\ focus = "sidebar"
  /\ msgs = << >>
  /\ delivered = { }
  /\ selection = None
  /\ status = "running"
  /\ DiffIdle

\* One callback of the crawl.  The workers of fastwalk call rootFn for the
\* entries found in any order, a directory before its entries; what rootFn
\* writes it writes under the lock of the model, so a callback is one step.
rootFn(path) ==
  /\ pc = "walk"
  /\ path \in pending
  /\ pending' = (pending \ { path })
                  \cup (IF IsDir(tree, path) THEN DirEntries(tree, path) ELSE { })
  /\ IF ~StatOk(tree, path) \/ IsDir(tree, path) THEN
       /\ \E f \in { checkClusterPath([ clusters |-> clusters, nodes |-> nodes ], path) } :
            /\ clusters' = f.clusters
            /\ nodes' = f.nodes
       /\ walkErr' = (walkErr \/ ~StatOk(tree, path))
       /\ UNCHANGED << kustomizations, sources, nextId >>
     ELSE IF ToLower(Ext(Base(path))) \notin { Yaml, Yml } THEN
       UNCHANGED << kustomizations, sources, nextId, clusters, nodes, walkErr >>
     ELSE
       /\ \E r \in { parseYamlFromFile(tree, path, nextId) } :
            /\ kustomizations' = kustomizations \o r.kustomizations
            /\ sources' = sources \o r.sources
            /\ nextId' = nextId + r.count
       /\ UNCHANGED << clusters, nodes, walkErr >>
  /\ UNCHANGED << tree, pc, linked, cmds, ready, emitted, reruns >>
  /\ UNCHANGED pureVars
  /\ UNCHANGED workVars
  /\ UNCHANGED uiVars

\* fastwalk.Walk has returned an error: walk returns ModelErrorCmd.
WalkFailed ==
  /\ pc = "walk"
  /\ walkErr
  /\ pc' = "error"
  /\ emitted' = << ModelErrorMsg >>
  /\ UNCHANGED << tree, pending, walkErr, kustomizations, sources, clusters, nodes,
                  nextId, linked, cmds, ready, reruns >>
  /\ UNCHANGED pureVars
  /\ UNCHANGED workVars
  /\ UNCHANGED uiVars

\* The crawl is complete and has found no kustomization: ModelFatalCmd.
WalkFatal ==
  /\ pc = "walk"
  /\ ~walkErr
  /\ pending = { }
  /\ Len(kustomizations) = 0
  /\ pc' = "fatal"
  /\ emitted' = << ModelFatalMsg >>
  /\ UNCHANGED << tree, pending, walkErr, kustomizations, sources, clusters, nodes,
                  nextId, linked, cmds, ready, reruns >>
  /\ UNCHANGED pureVars
  /\ UNCHANGED workVars
  /\ UNCHANGED uiVars

\* WalkComplete without the test for an empty store
WalkCompleteUnchecked ==
  /\ pc = "walk"
  /\ ~walkErr
  /\ pending = { }
  /\ pc' = "link"
  /\ UNCHANGED << tree, pending, walkErr, kustomizations, sources, clusters, nodes,
                  nextId, linked, cmds, ready, emitted, reruns >>
  /\ UNCHANGED pureVars
  /\ UNCHANGED workVars
  /\ UNCHANGED uiVars

\* The crawl is complete and has found kustomizations: on to the linking loop.
WalkComplete ==
  /\ pc = "walk"
  /\ ~walkErr
  /\ pending = { }
  /\ Len(kustomizations) # 0
  /\ pc' = "link"
  /\ UNCHANGED << tree, pending, walkErr, kustomizations, sources, clusters, nodes,
                  nextId, linked, cmds, ready, emitted, reruns >>
  /\ UNCHANGED pureVars
  /\ UNCHANGED workVars
  /\ UNCHANGED uiVars

\* The store as the linking functions see it
Store(ks, ss) == [ kustomizations |-> ks, sources |-> ss, err |-> FALSE, panic |-> FALSE ]

\* Link returning the error of a failed walk at once, as the crawl does
LinkStopping ==
  /\ pc = "link"
  /\ linked < Len(kustomizations)
  /\ \E st1 \in followFluxKustomization(tree,
                  Store([ kustomizations EXCEPT ![linked + 1].children = << >> ], sources),
                  linked + 1) :
       /\ \E st2 \in { IF st1.err THEN st1 ELSE setSource(st1, linked + 1) } :
            /\ kustomizations' = st2.kustomizations
            /\ sources' = st2.sources
       /\ emitted' = IF st1.err THEN << ModelErrorMsg >> ELSE emitted
       /\ pc' = IF st1.err THEN "error" ELSE IF st1.panic THEN "panic" ELSE "link"
  /\ linked' = linked + 1
  /\ UNCHANGED << tree, pending, walkErr, clusters, nodes, nextId, cmds, ready, reruns >>
  /\ UNCHANGED pureVars
  /\ UNCHANGED workVars
  /\ UNCHANGED uiVars

\* One iteration of the linking loop: the children are reset, the record is
\* linked, an error is collected, the source is bound.
Link ==
  /\ pc = "link"
  /\ linked < Len(kustomizations)
  /\ \E st1 \in followFluxKustomization(tree,
                  Store([ kustomizations EXCEPT ![linked + 1].children = << >> ], sources),
                  linked + 1) :
       /\ \E st2 \in { setSource(st1, linked + 1) } :
            /\ kustomizations' = st2.kustomizations
            /\ sources' = st2.sources
       /\ cmds' = IF st1.err THEN Append(cmds, ModelErrorMsg) ELSE cmds
       /\ ready' = (ready /\ ~st1.err)
       /\ pc' = IF st1.panic THEN "panic" ELSE "link"
  /\ linked' = linked + 1
  /\ UNCHANGED << tree, pending, walkErr, clusters, nodes, nextId, emitted, reruns >>
  /\ UNCHANGED pureVars
  /\ UNCHANGED workVars
  /\ UNCHANGED uiVars

\* m.reparentClusters() after the loop
Reparent ==
  /\ pc = "link"
  /\ linked = Len(kustomizations)
  /\ \E f \in { reparentClusters(tree, [ clusters |-> clusters, nodes |-> nodes ]) } :
       /\ clusters' = f.clusters
       /\ nodes' = f.nodes
  /\ pc' = "sort"
  /\ UNCHANGED << tree, pending, walkErr, kustomizations, sources, nextId, linked,
                  cmds, ready, emitted, reruns >>
  /\ UNCHANGED pureVars
  /\ UNCHANGED workVars
  /\ UNCHANGED uiVars

\* slices.SortStableFunc(m.kustomizations, ...)
Sort ==
  /\ pc = "sort"
  /\ kustomizations' = SortKustomizations(kustomizations)
  /\ pc' = "ready"
  /\ UNCHANGED << tree, pending, walkErr, sources, clusters, nodes, nextId, linked,
                  cmds, ready, emitted, reruns >>
  /\ UNCHANGED pureVars
  /\ UNCHANGED workVars
  /\ UNCHANGED uiVars

\* walk returns the batch of the collected errors and ModelReadyCmd(ready).
Ready ==
  /\ pc = "ready"
  /\ emitted' = Append(cmds, ModelReadyMsg(ready))
  /\ pc' = "done"
  /\ UNCHANGED << tree, pending, walkErr, kustomizations, sources, clusters, nodes,
                  nextId, linked, cmds, ready, reruns >>
  /\ UNCHANGED pureVars
  /\ UNCHANGED workVars
  /\ UNCHANGED uiVars

\* The crawl: fastwalk calls rootFn for an entry it has found
Crawl == \E path \in pending : rootFn(path)

Next ==
  \/ Crawl
  \/ WalkFailed
  \/ WalkFatal
  \/ WalkComplete
  \/ Link
  \/ Reparent
  \/ Sort
  \/ Ready

Spec == Init /\ [][Next]_vars


(***************************************************************************)
(* Passes called a second time                                             *)
(***************************************************************************)

\* setSource called once more for some record, after the linking loop and
\* before the sort, against the same source store.
SetSourceAgain ==
  /\ pc = "link"
  /\ linked = Len(kustomizations)
  /\ reruns < MaxReruns
  /\ \E index \in 1..Len(kustomizations) :
       \E st \in { setSource(Store(kustomizations, sources), index) } :
         /\ kustomizations' = st.kustomizations
         /\ sources' = st.sources
  /\ reruns' = reruns + 1
  /\ UNCHANGED << tree, pc, pending, walkErr, clusters, nodes, nextId, linked,
                  cmds, ready, emitted >>
  /\ UNCHANGED pureVars
  /\ UNCHANGED workVars
  /\ UNCHANGED uiVars

NextBind == Next \/ SetSourceAgain

SpecBind == Init /\ [][NextBind]_vars

\* reparentClusters called once more on the forest it has left, with the same
\* files on disk.
ReparentAgain ==
  /\ pc = "sort"
  /\ reruns < MaxReruns
  /\ \E f \in { reparentClusters(tree, [ clusters |-> clusters, nodes |-> nodes ]) } :
       /\ clusters' = f.clusters
       /\ nodes' = f.nodes
  /\ reruns' = reruns + 1
  /\ UNCHANGED << tree, pc, pending, walkErr, kustomizations, sources, nextId, linked,
                  cmds, ready, emitted >>
  /\ UNCHANGED pureVars
  /\ UNCHANGED workVars
  /\ UNCHANGED uiVars

NextReparent == Next \/ ReparentAgain

SpecReparent == Init /\ [][NextReparent]_vars

(***************************************************************************)
(* The crawl, one goroutine of fastwalk at a time                          *)
(***************************************************************************)

\* A mutex that lets every goroutine in
CanLockAlways(l, w) == TRUE

\* m.Lock() returns for goroutine w when no goroutine holds the mutex
CanLock(l, w) == l = 0

\* A goroutine enters rootFn for an entry.  A directory, or an entry os.Stat
\* fails on, goes to checkClusterPath, which returns at once when the path
\* names no cluster and goes for the mutex when it does; a file that is no
\* YAML file returns; a YAML file is parsed, outside the mutex, into the
\* locals k and s.  fastwalk reads a directory when the callback for it has
\* returned.
WorkerEnter(w, path) ==
  /\ pc = "walk"
  /\ workers[w] = Idle
  /\ path \in pending
  /\ IF ~StatOk(tree, path) \/ IsDir(tree, path) THEN
       \E r \in { Candidate(TrimRight(path, "/")) } :
         IF r.clusters = << >> THEN
           /\ pending' = (pending \ { path })
                           \cup (IF IsDir(tree, path) THEN DirEntries(tree, path) ELSE { })
           /\ walkErr' = (walkErr \/ ~StatOk(tree, path))
           /\ UNCHANGED << nextId, workers >>
         ELSE
           /\ pending' = pending \ { path }
           /\ workers' = [ workers EXCEPT ![w] =
                [ at |-> "matched", entry |-> path, clusters |-> r.clusters,
                  path |-> r.path, foundParent |-> FALSE ] ]
           /\ UNCHANGED << nextId, walkErr >>
     ELSE IF ToLower(Ext(Base(path))) \notin { Yaml, Yml } THEN
       /\ pending' = pending \ { path }
       /\ UNCHANGED << nextId, walkErr, workers >>
     ELSE
       /\ pending' = pending \ { path }
       /\ \E r \in { parseYamlFromFile(tree, path, nextId) } :
            /\ workers' = [ workers EXCEPT ![w] =
                 [ at |-> "parsed", k |-> r.kustomizations, s |-> r.sources,
                   loaded |-> << >> ] ]
            /\ nextId' = nextId + r.count
       /\ UNCHANGED walkErr
  /\ UNCHANGED << tree, pc, kustomizations, sources, clusters, nodes, linked, cmds,
                  ready, emitted, reruns, lock >>
  /\ UNCHANGED pureVars
  /\ UNCHANGED uiVars

\* checkClusterPath: m.Lock()
WorkerClusterLock(w) ==
  /\ pc = "walk"
  /\ workers[w].at = "matched"
  /\ CanLock(lock, w)
  /\ lock' = w
  /\ workers' = [ workers EXCEPT ![w].at = "holding" ]
  /\ UNCHANGED << tree, pc, pending, walkErr, kustomizations, sources, clusters, nodes,
                  nextId, linked, cmds, ready, emitted, reruns >>
  /\ UNCHANGED pureVars
  /\ UNCHANGED uiVars

\* checkClusterPath: the loop over m.clusters, which adds below every root of
\* the first name and sets foundParent
WorkerClusterLoop(w) ==
  /\ pc = "walk"
  /\ workers[w].at = "holding"
  /\ nodes' = AddToRoots(nodes, clusters, 1, workers[w].clusters, workers[w].path)
  /\ workers' = [ workers EXCEPT
       ![w].at = "looped",
       ![w].foundParent = \E i \in 1..Len(clusters) :
                            nodes[clusters[i]].name = workers[w].clusters[1] ]
  /\ UNCHANGED << tree, pc, pending, walkErr, kustomizations, sources, clusters,
                  nextId, linked, cmds, ready, emitted, reruns, lock >>
  /\ UNCHANGED pureVars
  /\ UNCHANGED uiVars

\* checkClusterPath: a new root when no root was found, m.Unlock(), and the
\* callback returns
WorkerClusterReturn(w) ==
  /\ pc = "walk"
  /\ workers[w].at = "looped"
  /\ IF workers[w].foundParent THEN UNCHANGED << clusters, nodes >>
     ELSE /\ clusters' = Append(clusters, Len(nodes) + 1)
          /\ nodes' = Append(nodes, NewCluster(workers[w].clusters[1], workers[w].path))
  /\ lock' = IF lock = w THEN 0 ELSE lock
  /\ pending' = pending \cup (IF IsDir(tree, workers[w].entry)
                                 THEN DirEntries(tree, workers[w].entry) ELSE { })
  /\ walkErr' = (walkErr \/ ~StatOk(tree, workers[w].entry))
  /\ workers' = [ workers EXCEPT ![w] = Idle ]
  /\ UNCHANGED << tree, pc, kustomizations, sources,
                  nextId, linked, cmds, ready, emitted, reruns >>
  /\ UNCHANGED pureVars
  /\ UNCHANGED uiVars

\* m.Lock()
WorkerLock(w) ==
  /\ pc = "walk"
  /\ workers[w].at = "parsed"
  /\ CanLock(lock, w)
  /\ lock' = w
  /\ workers' = [ workers EXCEPT ![w].at = "locked" ]
  /\ UNCHANGED << tree, pc, pending, walkErr, kustomizations, sources, clusters, nodes,
                  nextId, linked, cmds, ready, emitted, reruns >>
  /\ UNCHANGED pureVars
  /\ UNCHANGED uiVars

\* append(m.kustomizations, k...): the slice is read
WorkerLoadKustomizations(w) ==
  /\ pc = "walk"
  /\ workers[w].at = "locked"
  /\ workers' = [ workers EXCEPT ![w].at = "k_loaded", ![w].loaded = kustomizations ]
  /\ UNCHANGED << tree, pc, pending, walkErr, kustomizations, sources, clusters, nodes,
                  nextId, linked, cmds, ready, emitted, reruns, lock >>
  /\ UNCHANGED pureVars
  /\ UNCHANGED uiVars

\* m.kustomizations = ...: the result of the append is stored
WorkerStoreKustomizations(w) ==
  /\ pc = "walk"
  /\ workers[w].at = "k_loaded"
  /\ kustomizations' = workers[w].loaded \o workers[w].k
  /\ workers' = [ workers EXCEPT ![w].at = "k_stored", ![w].loaded = << >> ]
  /\ UNCHANGED << tree, pc, pending, walkErr, sources, clusters, nodes,
                  nextId, linked, cmds, ready, emitted, reruns, lock >>
  /\ UNCHANGED pureVars
  /\ UNCHANGED uiVars

\* append(m.sources, s...): the slice is read
WorkerLoadSources(w) ==
  /\ pc = "walk"
  /\ workers[w].at = "k_stored"
  /\ workers' = [ workers EXCEPT ![w].at = "s_loaded", ![w].loaded = sources ]
  /\ UNCHANGED << tree, pc, pending, walkErr, kustomizations, sources, clusters, nodes,
                  nextId, linked, cmds, ready, emitted, reruns, lock >>
  /\ UNCHANGED pureVars
  /\ UNCHANGED uiVars

\* m.sources = ...: the result of the append is stored
WorkerStoreSources(w) ==
  /\ pc = "walk"
  /\ workers[w].at = "s_loaded"
  /\ sources' = workers[w].loaded \o workers[w].s
  /\ workers' = [ workers EXCEPT ![w].at = "s_stored", ![w].loaded = << >> ]
  /\ UNCHANGED << tree, pc, pending, walkErr, kustomizations, clusters, nodes,
                  nextId, linked, cmds, ready, emitted, reruns, lock >>
  /\ UNCHANGED pureVars
  /\ UNCHANGED uiVars

\* m.Unlock(); return err
WorkerUnlock(w) ==
  /\ pc = "walk"
  /\ workers[w].at = "s_stored"
  /\ lock' = 0
  /\ workers' = [ workers EXCEPT ![w] = Idle ]
  /\ UNCHANGED << tree, pc, pending, walkErr, kustomizations, sources, clusters, nodes,
                  nextId, linked, cmds, ready, emitted, reruns >>
  /\ UNCHANGED pureVars
  /\ UNCHANGED uiVars

\* fastwalk.Walk returns: every entry was passed to rootFn, or a callback
\* has returned an error, and no goroutine is left in a callback.
WalkReturns ==
  /\ pc = "walk"
  /\ pending = { } \/ walkErr
  /\ \A w \in 1..MaxWorkers : workers[w] = Idle
  /\ pc' = "crawled"
  /\ UNCHANGED << tree, pending, walkErr, kustomizations, sources, clusters, nodes,
                  nextId, linked, cmds, ready, emitted, reruns >>
  /\ UNCHANGED pureVars
  /\ UNCHANGED workVars
  /\ UNCHANGED uiVars

NextCrawl ==
  \/ \E w \in 1..MaxWorkers : \E path \in pending : WorkerEnter(w, path)
  \/ \E w \in 1..MaxWorkers : WorkerClusterLock(w)
  \/ \E w \in 1..MaxWorkers : WorkerClusterLoop(w)
  \/ \E w \in 1..MaxWorkers : WorkerClusterReturn(w)
  \/ \E w \in 1..MaxWorkers : WorkerLock(w)
  \/ \E w \in 1..MaxWorkers : WorkerLoadKustomizations(w)
  \/ \E w \in 1..MaxWorkers : WorkerStoreKustomizations(w)
  \/ \E w \in 1..MaxWorkers : WorkerLoadSources(w)
  \/ \E w \in 1..MaxWorkers : WorkerStoreSources(w)
  \/ \E w \in 1..MaxWorkers : WorkerUnlock(w)
  \/ WalkReturns

\* The trees the crawl is followed on goroutine by goroutine
CrawlTrees ==
  { t \in 1..Len(Trees) :
      Trees[t] \in { TreeEndToEnd, TreeSources, TreeLayered, TreeEmpty, TreeBroken,
                     TreeShared } }

InitCrawl == Init /\ tree \in CrawlTrees

SpecCrawl == InitCrawl /\ [][NextCrawl]_vars

(***************************************************************************)
(* The linking loop, one goroutine of fastwalk at a time                   *)
(***************************************************************************)

\* The build directory of record index cannot be walked
WalkFails(t, k) == k.specPath # None /\ ~StatOk(t, GetAbsoluteSpecPath(k))

\* The files fastwalk.Walk finds below the build directory of k
Walked(t, k) ==
  IF k.specPath = None \/ WalkFails(t, k) THEN { }
  ELSE FilesUnder(t, GetAbsoluteSpecPath(k))

\* An iteration of the linking loop up to the call of fastwalk.Walk: the
\* children are reset and the record is classified.
FollowEnter ==
  /\ pc = "link"
  /\ linked < Len(kustomizations)
  /\ kustomizations' = [ kustomizations EXCEPT ![linked + 1] =
                           Classify(tree, [ @ EXCEPT !.children = << >> ]) ]
  /\ pending' = Walked(tree, kustomizations[linked + 1])
  /\ cmds' = IF WalkFails(tree, kustomizations[linked + 1])
               THEN Append(cmds, ModelErrorMsg) ELSE cmds
  /\ ready' = (ready /\ ~WalkFails(tree, kustomizations[linked + 1]))
  /\ pc' = "follow"
  /\ UNCHANGED << tree, walkErr, sources, clusters, nodes, nextId, linked, emitted,
                  reruns >>
  /\ UNCHANGED pureVars
  /\ UNCHANGED workVars
  /\ UNCHANGED uiVars

\* The goroutines that are in pathFn
InPathFn == { w \in 1..MaxWorkers : workers[w].at = "pathFn" }

\* A goroutine of fastwalk calls pathFn for a file of the build directory.
\* The entries of one directory are passed by the goroutine that has read the
\* directory, one after the other; the directories are shared out.
PathFnEnter(w, path) ==
  /\ pc = "follow"
  /\ workers[w] = Idle
  /\ path \in pending
  /\ \A v \in InPathFn : Dir(workers[v].path) # Dir(path)
  /\ pending' = pending \ { path }
  /\ workers' = [ workers EXCEPT ![w] = [ at |-> "pathFn", path |-> path ] ]
  /\ UNCHANGED << tree, pc, walkErr, kustomizations, sources, clusters, nodes, nextId,
                  linked, cmds, ready, emitted, reruns, lock >>
  /\ UNCHANGED pureVars
  /\ UNCHANGED uiVars

\* pathFn returns: what it has written to the records, without the mutex, is
\* in the stores.
PathFnReturn(w) ==
  /\ pc = "follow"
  /\ w \in InPathFn
  /\ \E st \in PathFn(tree, Store(kustomizations, sources), linked + 1, workers[w].path) :
       /\ kustomizations' = st.kustomizations
       /\ sources' = st.sources
       /\ pc' = IF st.panic THEN "panic" ELSE pc
  /\ workers' = [ workers EXCEPT ![w] = Idle ]
  /\ UNCHANGED << tree, pending, walkErr, clusters, nodes, nextId, linked, cmds, ready,
                  emitted, reruns, lock >>
  /\ UNCHANGED pureVars
  /\ UNCHANGED uiVars

\* fastwalk.Walk has returned; m.setSource(i) ends the iteration.
FollowReturn ==
  /\ pc = "follow"
  /\ pending = { }
  /\ InPathFn = { }
  /\ \E st \in { setSource(Store(kustomizations, sources), linked + 1) } :
       /\ kustomizations' = st.kustomizations
       /\ sources' = st.sources
  /\ linked' = linked + 1
  /\ pc' = "link"
  /\ UNCHANGED << tree, pending, walkErr, clusters, nodes, nextId, cmds, ready,
                  emitted, reruns >>
  /\ UNCHANGED pureVars
  /\ UNCHANGED workVars
  /\ UNCHANGED uiVars

NextFollow ==
  \/ Crawl
  \/ WalkFailed
  \/ WalkFatal
  \/ WalkComplete
  \/ FollowEnter
  \/ \E w \in 1..MaxWorkers : \E path \in pending : PathFnEnter(w, path)
  \/ \E w \in 1..MaxWorkers : PathFnReturn(w)
  \/ FollowReturn
  \/ Reparent
  \/ Sort
  \/ Ready

SpecFollow == Init /\ [][NextFollow]_vars

(***************************************************************************)
(* followKustomization, one resource at a time                             *)
(***************************************************************************)

\* The goroutines that are in followKustomization
InFollow == { w \in 1..MaxWorkers : workers[w].at \in { "called", "reading" } }

\* pathFn for a file that is no layering file
PathFnRegularReturn(w) ==
  /\ w \in InPathFn
  /\ Stem(Base(workers[w].path)) # Kustomization
  /\ PathFnReturn(w)

\* pathFn for a layering file: m.followKustomization(index, path, fluxKust).
\* depth counts the calls followKustomization has made of itself since.
FollowCall(w) ==
  /\ pc = "follow"
  /\ w \in InPathFn
  /\ Stem(Base(workers[w].path)) = Kustomization
  /\ workers' = [ workers EXCEPT ![w] =
       [ at |-> "called", path |-> workers[w].path, docs |-> << >>, resources |-> << >>,
         depth |-> 0 ] ]
  /\ UNCHANGED << tree, pc, pending, walkErr, kustomizations, sources, clusters, nodes,
                  nextId, linked, cmds, ready, emitted, reruns, lock >>
  /\ UNCHANGED pureVars
  /\ UNCHANGED uiVars

\* followKustomization: os.ReadFile; a path that cannot be read as a file ends
\* the call, and with it every call it was made from.
FollowOpen(w) ==
  /\ pc = "follow"
  /\ workers[w].at = "called"
  /\ workers' = [ workers EXCEPT ![w] =
       IF workers[w].path \notin FilePaths(tree) THEN Idle
       ELSE IF ~FileAt(tree, workers[w].path).readable THEN Idle
       ELSE [ @ EXCEPT !.at = "reading", !.docs = FileAt(tree, workers[w].path).kust ] ]
  /\ UNCHANGED << tree, pc, pending, walkErr, kustomizations, sources, clusters, nodes,
                  nextId, linked, cmds, ready, emitted, reruns, lock >>
  /\ UNCHANGED pureVars
  /\ UNCHANGED uiVars

\* followKustomization: the next document, or the next resource of the
\* document.  A resource that is a directory is followed, and the call returns
\* when that call returns; any other resource is compared with the records.
FollowStep(w) ==
  /\ pc = "follow"
  /\ workers[w].at = "reading"
  /\ IF workers[w].resources = << >> THEN
       /\ workers' = [ workers EXCEPT ![w] =
            IF workers[w].docs = << >> THEN Idle
            ELSE [ @ EXCEPT !.docs = Tail(@), !.resources = Head(workers[w].docs).resources ] ]
       /\ UNCHANGED << kustomizations, sources >>
     ELSE
       \E rp \in { Abs(Join(workers[w].path, Head(workers[w].resources))) } :
         IF IsDir(tree, rp) THEN
           /\ workers' = [ workers EXCEPT ![w] =
                [ at |-> "called", path |-> FollowedPath(rp), docs |-> << >>,
                  resources |-> << >>, depth |-> workers[w].depth + 1 ] ]
           /\ UNCHANGED << kustomizations, sources >>
         ELSE
           /\ \E st \in { BindResource(Store(kustomizations, sources), linked + 1, rp, 1) } :
                /\ kustomizations' = st.kustomizations
                /\ sources' = st.sources
           /\ workers' = [ workers EXCEPT ![w].resources = Tail(@) ]
  /\ UNCHANGED << tree, pc, pending, walkErr, clusters, nodes,
                  nextId, linked, cmds, ready, emitted, reruns, lock >>
  /\ UNCHANGED pureVars
  /\ UNCHANGED uiVars

\* fastwalk.Walk returns when every callback has returned
DescendReturn ==
  /\ InFollow = { }
  /\ FollowReturn

NextDescend ==
  \/ Crawl
  \/ WalkFailed
  \/ WalkFatal
  \/ WalkComplete
  \/ FollowEnter
  \/ \E w \in 1..MaxWorkers : \E path \in pending : PathFnEnter(w, path)
  \/ \E w \in 1..MaxWorkers : PathFnRegularReturn(w)
  \/ \E w \in 1..MaxWorkers : FollowCall(w)
  \/ \E w \in 1..MaxWorkers : FollowOpen(w)
  \/ \E w \in 1..MaxWorkers : FollowStep(w)
  \/ DescendReturn
  \/ Reparent
  \/ Sort
  \/ Ready

\* The repositories the descent is followed on resource by resource
DescendTrees ==
  { t \in 1..Len(Trees) :
      Trees[t] \in { TreeCycle, TreeNested, TreeEndToEnd, TreeLayered, TreeEmpty,
                     TreeBroken } }

InitDescend == Init /\ tree \in DescendTrees

SpecDescend == InitDescend /\ [][NextDescend]_vars

(***************************************************************************)
(* The event loop: manager Model.Update, one message at a time             *)
(***************************************************************************)

runVars == << tree, pc, pending, walkErr, kustomizations, sources, clusters, nodes,
              nextId, linked, cmds, ready, emitted, reruns >>

\* Model.Init has returned the command of walk and the program has not ended
Running == pc \in { "done", "error", "fatal" } /\ status = "running"

\* The keys other than tab, shift+tab and the quit keys
OtherKeys == { "up", "down", ":", ";", "x" }

\* The zones a mouse message can lie in: 0 is outside every zone, n is the
\* n-th item of the list or the n-th tab.
Zones == 0..Len(Tabs)

\* The mouse messages: the wheel, a press of the left button, and a release of
\* it in each of the zones
MouseMsgs ==
  { MouseMsg("wheelup", "press", 0), MouseMsg("wheeldown", "press", 0),
    MouseMsg("left", "press", 0) }
    \cup { MouseMsg("left", "release", z) : z \in Zones }

\* A call into the sidebar has returned o: its commands are started
AppliedWithin(o, max) ==
  /\ Len(msgs) + Len(o.cmds) <= max
  /\ sidebar' = o.sidebar
  /\ selection' = o.selection
  /\ msgs' = msgs \o o.cmds
  /\ status' = IF o.panic THEN "panic" ELSE status

Applied(o) == AppliedWithin(o, MaxMsgs)

\* updateKeyMsg, the cases Tab (forward) and ShiftTab, with at most max
\* commands running
TabKeyWithin(forward, max) ==
  /\ Running
  /\ primary' = TabviewFocus(primary, forward)
  /\ \/ /\ focus = "sidebar"
        /\ focus' = "primary"
        /\ \E o \in { SidebarFocus(sidebar, FALSE) } : AppliedWithin(o, max)
     \/ /\ focus = "primary"
        /\ ContentFocus(primary, forward) = NoFocus
        /\ focus' = "sidebar"
        /\ \E o \in { SidebarFocus(sidebar, TRUE) } : AppliedWithin(o, max)
     \/ /\ focus = "primary"
        /\ ContentFocus(primary, forward) # NoFocus
        /\ UNCHANGED << focus, sidebar, selection, msgs, status >>
  /\ UNCHANGED << delivered, runVars, pureVars, workVars >>

TabKey(forward) == TabKeyWithin(forward, MaxMsgs)

KeyTab == TabKey(TRUE)

KeyShiftTab == TabKey(FALSE)

\* updateKeyMsg, the case Quit
KeyQuit ==
  /\ Running
  /\ status' = "quit"
  /\ UNCHANGED << sidebar, primary, focus, msgs, delivered, selection >>
  /\ UNCHANGED << runVars, pureVars, workVars >>

\* updateKeyMsg, the default case: the key goes to the part that has the focus
KeyWithin(k, max) ==
  /\ Running
  /\ \/ /\ focus = "sidebar"
        /\ \E o \in { SidebarUpdate(sidebar, kustomizations, KeyMsg(k)) } : AppliedWithin(o, max)
        /\ UNCHANGED primary
     \/ /\ focus = "primary"
        /\ primary' = TabviewKey(primary, k)
        /\ Len(msgs) < max
        /\ msgs' = IF k \in { ":", ";" }
                     THEN Append(msgs, TabChangedMsg(ActiveTab(TabviewKey(primary, k))))
                     ELSE msgs
        /\ UNCHANGED << sidebar, selection, status >>
  /\ UNCHANGED << focus, delivered, runVars, pureVars, workVars >>

Key(k) == KeyWithin(k, MaxMsgs)

\* Update, the case tea.MouseMsg
Mouse(msg) ==
  /\ Running
  /\ \/ /\ focus = "sidebar"
        /\ \E o \in { SidebarUpdate(sidebar, kustomizations, msg) } : Applied(o)
        /\ UNCHANGED primary
     \/ /\ focus = "primary"
        /\ \/ /\ msg.button = "left" /\ msg.action = "release" /\ msg.at \in 1..Len(Tabs)
              /\ Len(msgs) < MaxMsgs
              /\ primary' = [ primary EXCEPT !.activeTab = msg.at - 1 ]
              /\ msgs' = Append(msgs, TabChangedMsg(Tabs[msg.at]))
           \/ /\ ~(msg.button = "left" /\ msg.action = "release" /\ msg.at \in 1..Len(Tabs))
              /\ UNCHANGED << primary, msgs >>
        /\ UNCHANGED << sidebar, selection, status >>
  /\ UNCHANGED << focus, delivered, runVars, pureVars, workVars >>

\* Update for a message of the command walk returned.  The commands of a
\* batch run concurrently, so the messages arrive in any order; an error goes
\* to the primary view and a toast, a fatal error to a toast that ends the
\* program when it has been shown.
WalkMsgWithin(n, max) ==
  /\ Running
  /\ n \in (1..Len(emitted)) \ delivered
  /\ delivered' = delivered \cup { n }
  /\ IF emitted[n].type = "ModelReadyMsg"
       THEN \E o \in { SidebarUpdate(sidebar, kustomizations, emitted[n]) } : AppliedWithin(o, max)
       ELSE UNCHANGED << sidebar, selection, msgs, status >>
  /\ primary' = IF emitted[n].type = "ModelErrorMsg"
                  THEN TabviewDefault(primary, emitted[n]) ELSE primary
  /\ UNCHANGED << focus, runVars, pureVars, workVars >>

WalkMsg(n) == WalkMsgWithin(n, MaxMsgs)

\* The completion command of the fatal toast: tea.Quit
FatalToastDone ==
  /\ Running
  /\ \E n \in delivered : emitted[n].type = "ModelFatalMsg"
  /\ status' = "quit"
  /\ UNCHANGED << sidebar, primary, focus, msgs, delivered, selection >>
  /\ UNCHANGED << runVars, pureVars, workVars >>

Removed(seq, i) == [ j \in 1..(Len(seq) - 1) |-> IF j < i THEN seq[j] ELSE seq[j + 1] ]

\* Update, the case components.TabChangedMsg: to the sidebar and to the primary
\* view, where the content of the active tab shows its splash.
TabChangedWithin(i, max) ==
  /\ Running
  /\ i \in 1..Len(msgs)
  /\ msgs[i].type = "TabChangedMsg"
  /\ \E o \in { SidebarUpdate(sidebar, kustomizations, msgs[i]) } :
       /\ Len(msgs) - 1 + Len(o.cmds) <= max
       /\ sidebar' = o.sidebar
       /\ selection' = o.selection
       /\ msgs' = Removed(msgs, i) \o o.cmds
       /\ status' = IF o.panic THEN "panic" ELSE status
       /\ primary' = IF o.panic THEN primary ELSE TabviewDefault(primary, msgs[i])
  /\ UNCHANGED << focus, delivered, runVars, pureVars, workVars >>

TabChanged(i) == TabChangedWithin(i, MaxMsgs)

\* What a flux command returns: its output, or an error when flux fails
FluxExecMsgs(cmd) ==
  { [ type |-> "FluxExecMsg", tab |-> cmd.tab, api |-> cmd.api ],
    [ type |-> "ModelErrorMsg", tab |-> cmd.tab, api |-> cmd.api ] }

\* A flux command has ended: Update hands its FluxExecMsg (the default case)
\* or its ModelErrorMsg to the primary view and so to the content of the
\* active tab; the diffview builds its filter from the output.
FluxExec(i) ==
  /\ Running
  /\ i \in 1..Len(msgs)
  /\ msgs[i].type = "FluxExecCmd"
  /\ msgs' = Removed(msgs, i)
  /\ \E msg \in FluxExecMsgs(msgs[i]) : primary' = TabviewDefault(primary, msg)
  /\ UNCHANGED << sidebar, focus, delivered, selection, status >>
  /\ UNCHANGED << runVars, pureVars, workVars >>

\* A FileMsg arrives: Update, the default case, hands it to the primary view
\* and so to the content of the active tab.
File(i) ==
  /\ Running
  /\ i \in 1..Len(msgs)
  /\ msgs[i].type = "FileMsg"
  /\ msgs' = Removed(msgs, i)
  /\ primary' = TabviewDefault(primary, msgs[i])
  /\ UNCHANGED << sidebar, focus, delivered, selection, status >>
  /\ UNCHANGED << runVars, pureVars, workVars >>

NextUi ==
  \/ Crawl
  \/ WalkFailed
  \/ WalkFatal
  \/ WalkComplete
  \/ Link
  \/ Reparent
  \/ Sort
  \/ Ready
  \/ KeyTab
  \/ KeyShiftTab
  \/ KeyQuit
  \/ \E k \in OtherKeys : Key(k)
  \/ \E msg \in MouseMsgs : Mouse(msg)
  \/ \E n \in 1..Len(emitted) : WalkMsg(n)
  \/ FatalToastDone
  \/ \E i \in 1..Len(msgs) : TabChanged(i)
  \/ \E i \in 1..Len(msgs) : FluxExec(i)
  \/ \E i \in 1..Len(msgs) : File(i)

\* The repositories the event loop is explored on
UiTrees == { t \in 1..Len(Trees) :
             Trees[t] \in { TreeEmpty, TreeBroken, TreeTwins, TreeHidden } }

InitUi == Init /\ tree \in UiTrees

SpecUi == InitUi /\ [][NextUi]_vars

\* The event loop of a user who changes panes with Tab only and goes on
\* pressing it for as long as the program runs
NextTab ==
  \/ Crawl
  \/ WalkFailed
  \/ WalkFatal
  \/ WalkComplete
  \/ Link
  \/ Reparent
  \/ Sort
  \/ Ready
  \/ KeyTab
  \/ KeyQuit
  \/ \E k \in OtherKeys : Key(k)
  \/ \E msg \in MouseMsgs : Mouse(msg)
  \/ \E n \in 1..Len(emitted) : WalkMsg(n)
  \/ FatalToastDone
  \/ \E i \in 1..Len(msgs) : TabChanged(i)
  \/ \E i \in 1..Len(msgs) : FluxExec(i)
  \/ \E i \in 1..Len(msgs) : File(i)

SpecTab == InitUi /\ [][NextTab]_vars /\ WF_vars(KeyTab)

\* The commands that may be running at once in the event loop of the views
MaxInFlight == 2

\* The keys of a user who moves down the list and on to the next tab
ViewKeys == { "down", ":" }

\* The runtime hands a message to Update: a message of walk, a tab change, the
\* result of a flux command or the content of a file
Deliver ==
  \/ \E n \in 1..Len(emitted) : WalkMsgWithin(n, MaxInFlight)
  \/ \E i \in 1..Len(msgs) : TabChangedWithin(i, MaxInFlight)
  \/ \E i \in 1..Len(msgs) : FluxExec(i)
  \/ \E i \in 1..Len(msgs) : File(i)

\* The event loop of a user at the keyboard who moves between the panes with
\* Tab, in the list and between the tabs, while up to MaxInFlight commands run
NextView ==
  \/ Crawl
  \/ WalkFailed
  \/ WalkFatal
  \/ WalkComplete
  \/ Link
  \/ Reparent
  \/ Sort
  \/ Ready
  \/ TabKeyWithin(TRUE, MaxInFlight)
  \/ KeyQuit
  \/ \E k \in ViewKeys : KeyWithin(k, MaxInFlight)
  \/ FatalToastDone
  \/ Deliver

\* The result of a flux command or the content of a file is handed to Update
Result == \E i \in 1..Len(msgs) : FluxExec(i) \/ File(i)

\* The runtime runs every command in a goroutine of its own and hands every
\* message to Update: a result that waits is delivered.
SpecView == InitUi /\ [][NextView]_vars /\ WF_vars(Result)

(***************************************************************************)
(* ParseSubstitutions, one iteration of its loop at a time                 *)
(***************************************************************************)

Token(k) == << "$", "{" >> \o k \o << "}" >>

\* What the inputs are made of: tokens of the keys a and b, a token of a name
\* that is no key, and a separator.
Pieces == { Token(<< "a" >>), Token(<< "b" >>), Token(<< "c" >>), << "-" >> }

Keys == { << "a" >>, << "b" >> }

Values == { << "x" >>, Token(<< "b" >>) }

Longer(inputs) == inputs \cup { p \o q : p \in Pieces, q \in inputs }

RECURSIVE Inputs(_)
\* The strings of at most n pieces
Inputs(n) == IF n = 0 THEN { << >> } ELSE Longer(Inputs(n - 1))

Maps == UNION { [ D -> Values ] : D \in SUBSET Keys }

\* A call ParseSubstitutions(input, substitutions)
InitSubst ==
  /\ input \in Inputs(MaxParts)
  /\ substitutions \in Maps
  /\ where = input
  /\ todo = DOMAIN substitutions
  /\ pc = "subst"
  /\ tree = 1
  /\ pending = { }
  /\ walkErr = FALSE
  /\ kustomizations = << >>
  /\ sources = << >>
  /\ clusters = << >>
  /\ nodes = << >>
  /\ nextId = 1
  /\ linked = 0
  /\ cmds = << >>
  /\ ready = TRUE
  /\ emitted = << >>
  /\ reruns = 0
  /\ lock = 0
  /\ workers = [ w \in 1..MaxWorkers |-> Idle ]
  /\ sidebar = NewSidebar
  /\ primary = NewTabview
  /\ focus = "sidebar"
  /\ msgs = << >>
  /\ delivered = { }
  /\ selection = None
  /\ status = "running"
  /\ DiffIdle

\* One iteration of the range over the map: Go visits the keys in any order.
SubstVisit(k) ==
  /\ pc = "subst"
  /\ k \in todo
  /\ where' = SubstituteKey(where, k, substitutions[k])
  /\ todo' = todo \ { k }
  /\ UNCHANGED << tree, pc, pending, walkErr, kustomizations, sources, clusters, nodes,
                  nextId, linked, cmds, ready, emitted, reruns, input, substitutions >>
  /\ UNCHANGED diffVars
  /\ UNCHANGED workVars
  /\ UNCHANGED uiVars

\* return where
SubstReturn ==
  /\ pc = "subst"
  /\ todo = { }
  /\ pc' = "returned"
  /\ UNCHANGED << tree, pending, walkErr, kustomizations, sources, clusters, nodes,
                  nextId, linked, cmds, ready, emitted, reruns >>
  /\ UNCHANGED pureVars
  /\ UNCHANGED workVars
  /\ UNCHANGED uiVars

SubstLoop == \E k \in todo : SubstVisit(k)

NextSubst == SubstLoop \/ SubstReturn

SpecSubst == InitSubst /\ [][NextSubst]_vars


(***************************************************************************)
(* parseFluxDiff, one line at a time                                       *)
(***************************************************************************)

\* The longest input in lines
MaxLines == 5

\* The lines the inputs are made of: an empty line, the headers of two
\* entries (one with the suffix " drifted"), a key, a title that begins with
\* the change indicator, an addition and a deletion
HeaderA == EntryIndicator \o << "K", "/", "n", "/", "a" >>
HeaderB == EntryIndicator \o << "K", "/", "n", "/", "b" >> \o Drifted
DiffLines ==
  { << >>, HeaderA, HeaderB, << " ", "k" >>, << " ", ChangeIndicator >>,
    << " ", AdditionIndicator, "1" >>, << " ", DeletionIndicator, "2" >> }

DiffInputs == UNION { [ 1..n -> DiffLines ] : n \in 0..MaxLines }

\* The locals of the call under way
Locals ==
  [ results |-> results, currentEntry |-> currentEntry, currentChange |-> currentChange,
    lastChange |-> lastChange, lastType |-> lastType, lastChangeType |-> lastChangeType,
    expected |-> expected, panic |-> FALSE ]

InitDiff ==
  /\ output \in DiffInputs
  /\ scanner = output
  /\ results = ParserStart.results
  /\ currentEntry = ParserStart.currentEntry
  /\ currentChange = ParserStart.currentChange
  /\ lastChange = ParserStart.lastChange
  /\ lastType = ParserStart.lastType
  /\ lastChangeType = ParserStart.lastChangeType
  /\ expected = ParserStart.expected
  /\ pc = "diff"
  /\ tree = 1
  /\ pending = { }
  /\ walkErr = FALSE
  /\ kustomizations = << >>
  /\ sources = << >>
  /\ clusters = << >>
  /\ nodes = << >>
  /\ nextId = 1
  /\ linked = 0
  /\ cmds = << >>
  /\ ready = TRUE
  /\ emitted = << >>
  /\ reruns = 0
  /\ where = << >>
  /\ input = << >>
  /\ substitutions = << >>
  /\ todo = { }
  /\ lock = 0
  /\ workers = [ w \in 1..MaxWorkers |-> Idle ]
  /\ sidebar = NewSidebar
  /\ primary = NewTabview
  /\ focus = "sidebar"
  /\ msgs = << >>
  /\ delivered = { }
  /\ selection = None
  /\ status = "running"

\* The locals after the iteration are those of s
Assigned(s) ==
  /\ results' = s.results
  /\ currentEntry' = s.currentEntry
  /\ currentChange' = s.currentChange
  /\ lastChange' = s.lastChange
  /\ lastType' = s.lastType
  /\ lastChangeType' = s.lastChangeType
  /\ expected' = s.expected
  /\ pc' = IF s.panic THEN "panic" ELSE "diff"

\* One iteration of the loop: scanner.Scan() has returned a line
Scan ==
  /\ pc = "diff"
  /\ scanner # << >>
  /\ scanner' = Tail(scanner)
  /\ \E s \in { Scanned(Locals, Head(scanner)) } : Assigned(s)
  /\ UNCHANGED << tree, pending, walkErr, kustomizations, sources, clusters, nodes,
                  nextId, linked, cmds, ready, emitted, reruns, output >>
  /\ UNCHANGED << substVars, workVars, uiVars >>

\* The scanner has no more lines: the current entry is appended and results
\* is returned
DiffReturn ==
  /\ pc = "diff"
  /\ scanner = << >>
  /\ results' = AtEof(Locals)
  /\ pc' = "parsed"
  /\ UNCHANGED << tree, pending, walkErr, kustomizations, sources, clusters, nodes,
                  nextId, linked, cmds, ready, emitted, reruns, output, scanner,
                  currentEntry, currentChange, lastChange, lastType, lastChangeType,
                  expected >>
  /\ UNCHANGED << substVars, workVars, uiVars >>

NextDiff == Scan \/ DiffReturn

SpecDiff == InitDiff /\ [][NextDiff]_vars


(***************************************************************************)
(* Properties                                                              *)
(***************************************************************************)

\* The number of entries of seq equal to x
Count(seq, x) == Cardinality({ i \in 1..Len(seq) : seq[i] = x })

\* The records with the given (trimmed) name
Named(ks, name) == { i \in 1..Len(ks) : GetName(ks[i]) = name }

\* C1: for the end-to-end tree the finished pipeline has "app" and "apps"
\* classified Complete, "app" in the children of "apps" with "apps" as its
\* parent, and a cluster root "prod" whose path is the directory clusters/prod.
EndToEndResolved ==
  (pc = "done" /\ tree = 1) =>
    /\ \E a \in Named(kustomizations, W_app) : \E p \in Named(kustomizations, W_apps) :
         /\ kustomizations[a].ftype = "Complete"
         /\ kustomizations[p].ftype = "Complete"
         /\ a \in Range(kustomizations[p].children)
         /\ kustomizations[a].parent = p
    /\ \E r \in Range(clusters) :
         /\ nodes[r].name = W_prod
         /\ nodes[r].filepath = P(<< W_clusters, W_prod >>)

\* The part of the end-to-end result that does not rest on the children: both
\* records Complete, the cluster root "prod" at clusters/prod.
EndToEndClassified ==
  (pc = "done" /\ tree = 1) =>
    /\ \A i \in 1..Len(kustomizations) : kustomizations[i].ftype = "Complete"
    /\ Named(kustomizations, W_app) # { } /\ Named(kustomizations, W_apps) # { }
    /\ \E r \in Range(clusters) :
         /\ nodes[r].name = W_prod
         /\ nodes[r].filepath = P(<< W_clusters, W_prod >>)

ChildSlots(ks, S) == UNION { Range(ks[i].children) : i \in S }

RECURSIVE Reach(_, _, _)
\* The slots reached from the slots S in at most n further steps along children
Reach(ks, S, n) == IF n = 0 THEN S ELSE Reach(ks, S \cup ChildSlots(ks, S), n - 1)

BindingIdempotent ==
  \A s \in 1..Len(sources) : \A i \in 1..Len(kustomizations) :
    Count(sources[s].children, i) <= 1

\* C4: reparentClusters applied to the forest a run of it has left changes
\* neither the root list nor any node.
ReparentIdempotent ==
  [][ reruns' # reruns => (clusters' = clusters /\ nodes' = nodes) ]_vars

\* reparentClusters has run again on a forest in which it had put prod below
\* mgmt.
ReparentedTwice ==
  /\ reruns = 1
  /\ pc = "sort"
  /\ \E r \in Range(clusters) :
       /\ nodes[r].name = W_mgmt
       /\ \E c \in Range(nodes[r].children) : c # 0 /\ nodes[c].name = W_prod

TokenAt(s, i, k) ==
  /\ i + Len(k) + 2 <= Len(s)
  /\ SubSeq(s, i, i + Len(k) + 2) = Token(k)

RECURSIVE SinglePass(_, _, _)
\* s from position i on with every token of a key of m replaced by the value
\* of the key and everything else kept, in one pass from the left
SinglePass(s, m, i) ==
  IF i > Len(s) THEN << >>
  ELSE IF \E k \in DOMAIN m : TokenAt(s, i, k)
    THEN m[CHOOSE k \in DOMAIN m : TokenAt(s, i, k)]
           \o SinglePass(s, m, i + Len(CHOOSE k \in DOMAIN m : TokenAt(s, i, k)) + 3)
  ELSE << s[i] >> \o SinglePass(s, m, i + 1)

\* C5: ParseSubstitutions returns its input with every token of a key replaced
\* by the value of the key and every other token unchanged.
SubstitutesTokensOfInput ==
  pc = "returned" => where = SinglePass(input, substitutions, 1)

Without(m, k) == [ j \in (DOMAIN m) \ { k } |-> m[j] ]

\* C6: a key whose token is not in the input changes nothing, and the result
\* is the same for every order in which the map is visited.
NoNestedExpansion ==
  pc = "returned" =>
    /\ \A o \in Perms(DOMAIN substitutions) :
         where = SubstituteInOrder(input, substitutions, o)
    /\ \A k \in DOMAIN substitutions :
         ~Contains(input, Token(k)) =>
           where \in ParseSubstitutions(input, Without(substitutions, k))


\* The first position at which a and b differ, or 0 when one is a prefix of
\* the other
FirstDifference(a, b) == First({ i \in 1..Min(Len(a), Len(b)) : a[i] # b[i] })

PrecedesAt(a, b, d) == IF d = 0 THEN Len(a) < Len(b) ELSE Ord(a[d]) < Ord(b[d])

\* a comes before b in lexicographic order
Precedes(a, b) == PrecedesAt(a, b, FirstDifference(a, b))

\* a may stand right before b in the sorted list
InOrder(a, b) ==
  \/ Len(a.children) > Len(b.children)
  \/ /\ Len(a.children) = Len(b.children)
     /\ \/ Precedes(GetName(a), GetName(b))
        \/ GetName(a) = GetName(b) /\ a.id < b.id

\* C7: after the sort the manifest list is ordered by descending number of
\* children, then by ascending name; manifests equal on both keep the order
\* of their discovery, which is the order of their ids.
SortedStore ==
  pc \in { "ready", "done" } =>
    \A i \in 1..(Len(kustomizations) - 1) :
      InOrder(kustomizations[i], kustomizations[i + 1])

\* Two manifests without children, "b" discovered before "a", come out as a, b.
SortedAgainstDiscovery ==
  /\ pc = "done"
  /\ \E i \in 1..(Len(kustomizations) - 1) :
       /\ kustomizations[i].name = << "a" >>
       /\ kustomizations[i + 1].name = << "b" >>
       /\ kustomizations[i].children = << >>
       /\ kustomizations[i + 1].children = << >>
       /\ kustomizations[i + 1].id < kustomizations[i].id

KustomizationDocs(f) == { n \in 1..Len(f.docs) : f.docs[n].api = Some(kustomizationApi) }

\* The kustomization documents in the YAML files of tree t
ManifestDocs(t) ==
  UNION { { << f.path, n >> : n \in KustomizationDocs(f) } :
            f \in { g \in Trees[t].files :
                      g.readable /\ ToLower(Ext(g.path)) \in { Yaml, Yml } } }

\* The positions of the store whose record is not Base
Visible(ks) == { i \in 1..Len(ks) : ks[i].ftype # "Base" }

\* C8: Items holds exactly the records of the store that are not Base, in
\* store order, and the store holds every manifest discovered, the Base ones
\* included.
ItemsHideBase ==
  /\ Len(Items(kustomizations)) = Cardinality(Visible(kustomizations))
  /\ \A n \in 1..Len(Items(kustomizations)) :
       \E i \in Visible(kustomizations) :
         /\ Items(kustomizations)[n] = kustomizations[i]
         /\ Cardinality({ j \in Visible(kustomizations) : j < i }) = n - 1
  /\ Cardinality({ kustomizations[i].id : i \in 1..Len(kustomizations) })
       = Len(kustomizations)
  /\ Len(kustomizations) + Len(sources) = nextId - 1
  /\ pc \in { "link", "sort", "ready", "done" } =>
       Len(kustomizations) = Cardinality(ManifestDocs(tree))

\* The finished pipeline has left a Base record in the store that Items does
\* not show, beside records it shows.
BaseHidden ==
  /\ pc = "done"
  /\ \E i \in 1..Len(kustomizations) : kustomizations[i].ftype = "Base"
  /\ Items(kustomizations) # << >>
  /\ Len(Items(kustomizations)) < Len(kustomizations)

\* C9: a crawl that completes with an empty manifest store ends the run with
\* the fatal message alone: no ready message, no error message, and none of
\* linking, source binding, reparenting and sorting is run.
FatalOnEmptyStore ==
  (pc # "walk" /\ ~walkErr /\ Len(kustomizations) = 0) =>
    /\ pc = "fatal"
    /\ emitted = << ModelFatalMsg >>
    /\ cmds = << >>
    /\ linked = 0

\* The crawl of a tree with directories and files, none of them a manifest,
\* has ended in the fatal message.
FatalEmitted ==
  /\ pc = "fatal"
  /\ kustomizations = << >>
  /\ clusters # << >>
  /\ emitted = << ModelFatalMsg >>

\* C10: a run whose crawl has found a manifest emits the ready message exactly
\* once, and only when every manifest is linked and bound, the clusters are
\* reparented and the store is sorted.
ReadyOnceAfterPipeline ==
  /\ (\E n \in 1..Len(emitted) : emitted[n].type = "ModelReadyMsg") =>
       /\ pc = "done"
       /\ linked = Len(kustomizations)
  /\ (Len(kustomizations) > 0 /\ pc \in { "error", "done" }) =>
       Cardinality({ n \in 1..Len(emitted) : emitted[n].type = "ModelReadyMsg" }) = 1

\* The messages of the given type among the emitted ones
EmittedOf(type) == { n \in 1..Len(emitted) : emitted[n].type = type }

\* C11: when walk has returned, either the pipeline ran to its end and the
\* ready message was emitted (and no fatal message), or the fatal message
\* alone was emitted; no run ends with neither.
ReadyOrFatal ==
  pc \in { "error", "fatal", "done", "panic" } =>
    \/ /\ pc = "done"
       /\ linked = Len(kustomizations)
       /\ Cardinality(EmittedOf("ModelReadyMsg")) = 1
       /\ EmittedOf("ModelFatalMsg") = { }
    \/ /\ pc = "fatal"
       /\ emitted = << ModelFatalMsg >>

\* The ids of the records of a store
Ids(store) == { store[i].id : i \in 1..Len(store) }

\* The records of a store that were parsed from the file at path
From(store, path) ==
  { i \in 1..Len(store) :
      store[i].filepath \in { path, TrimPrefix(path, Root \o << "/" >>) } }

\* The YAML files of tree t
YamlFiles(t) == { p \in FilePaths(t) : ToLower(Ext(Base(p))) \in { Yaml, Yml } }

\* C12: when the crawl has returned, with its goroutines interleaved in any
\* way, every record a callback has parsed is in its store exactly once, and
\* after a crawl without error the stores hold, for every YAML file, as many
\* kustomizations and as many sources as the file has.
AppendsKept ==
  pc = "crawled" =>
    /\ Cardinality(Ids(kustomizations)) = Len(kustomizations)
    /\ Cardinality(Ids(sources)) = Len(sources)
    /\ Ids(kustomizations) \cup Ids(sources) = 1..(nextId - 1)
    /\ Ids(kustomizations) \cap Ids(sources) = { }
    /\ ~walkErr =>
         \A p \in YamlFiles(tree) :
           /\ Cardinality(From(kustomizations, p))
                = Len(parseYamlFromFile(tree, p, 1).kustomizations)
           /\ Cardinality(From(sources, p))
                = Len(parseYamlFromFile(tree, p, 1).sources)

\* The crawl has returned with kustomizations of two files and a source in the
\* stores, the kustomization parsed first appended last: the two callbacks
\* overlapped.
AppendedOutOfParseOrder ==
  /\ pc = "crawled"
  /\ ~walkErr
  /\ sources # << >>
  /\ \E i \in 1..Len(kustomizations) : \E j \in 1..Len(kustomizations) :
       /\ i < j
       /\ kustomizations[i].id > kustomizations[j].id
       /\ kustomizations[i].filepath # kustomizations[j].filepath

\* A store with no parent, no source and no child in it
Cleared(st) ==
  [ st EXCEPT
      !.kustomizations = [ i \in 1..Len(@) |->
                             [ @[i] EXCEPT !.parent = 0, !.source = 0, !.children = << >> ] ],
      !.sources = [ s \in 1..Len(@) |-> [ @[s] EXCEPT !.parent = 0 ] ] ]

\* The fields of the records that differ between the stores a and b
Differing(a, b) ==
  { x \in { "kustomizations" } \X (1..Len(a.kustomizations))
           \X { "parent", "source", "children", "name", "specPath" } :
      a.kustomizations[x[2]][x[3]] # b.kustomizations[x[2]][x[3]] }
  \cup { x \in { "sources" } \X (1..Len(a.sources)) \X { "parent" } :
          a.sources[x[2]].parent # b.sources[x[2]].parent }

\* The fields pathFn assigns when it is called for path while record index
\* is linked: every pointer it assigns is non-nil.
WrittenBy(t, st, index, path) ==
  UNION { Differing(Cleared(st), after) : after \in PathFn(t, Cleared(st), index, path) }

\* The fields pathFn reads of records it may also write: the range over
\* m.sources copies every Source, its parent included.
ReadBy(t, st, index, path) ==
  IF Stem(Base(path)) # Kustomization \/ WrittenBy(t, st, index, path) # { }
    THEN { << "sources", s, "parent" >> : s \in 1..Len(st.sources) }
    ELSE { }

\* C13: during the link pass no goroutine writes a field of a record while
\* another goroutine is in a call that reads or writes the same field.
WritesOneAtATime ==
  \A v \in InPathFn : \A w \in InPathFn \ { v } :
    WrittenBy(tree, Store(kustomizations, sources), linked + 1, workers[v].path)
      \cap (WrittenBy(tree, Store(kustomizations, sources), linked + 1, workers[w].path)
              \cup ReadBy(tree, Store(kustomizations, sources), linked + 1, workers[w].path))
      = { }

\* The linking loop has ended
AllLinked == pc \in { "sort", "ready", "done" } \/ (pc = "link" /\ linked = Len(kustomizations))

\* The layering files in the directory of the file at path
LayeringBeside(t, path) ==
  { f \in Trees[t].files :
      f.path \in { Join(Dir(path), Kustomization \o Yaml),
                   Join(Dir(path), Kustomization \o Yml) } }

\* The layering file that counts: kustomization.yaml before kustomization.yml
LayeringOf(t, path) ==
  CHOOSE f \in LayeringBeside(t, path) :
    \A g \in LayeringBeside(t, path) : Len(g.path) <= Len(f.path)

\* The entries of the layering file f: nothing can be listed in a file that
\* cannot be read.
Listed(f, field) == IF f.readable /\ f.kust # << >> THEN f.kust[1][field] ELSE << >>

\* The classification rule for the file at path
RuleOf(t, path) ==
  IF LayeringBeside(t, path) = { } THEN "Complete"
  ELSE IF InSeq(Base(path), Listed(LayeringOf(t, path), "resources")) THEN "Complete"
  ELSE IF InSeq(Base(path), Listed(LayeringOf(t, path), "patches")) THEN "Patch"
  ELSE "Base"

\* C14: once linked, a manifest is Complete when its directory has no layering
\* file or the layering file lists its file as a resource, otherwise Patch
\* when the layering file lists its file as a patch, otherwise Base; a file
\* listed as both is Complete.
ClassifiedByRule ==
  AllLinked =>
    \A i \in 1..Len(kustomizations) :
      kustomizations[i].ftype = RuleOf(tree, RootedPath(kustomizations[i]))

\* The rule on the trees whose layering files can all be read
ClassifiedByReadableRule ==
  (AllLinked /\ \A f \in Trees[tree].files : f.readable) =>
    \A i \in 1..Len(kustomizations) :
      kustomizations[i].ftype = RuleOf(tree, RootedPath(kustomizations[i]))

\* The record of the store with the given id
RecordOf(ks, id) == ks[CHOOSE i \in 1..Len(ks) : ks[i].id = id]

\* C15: a manifest enters the store as Base, and no step changes the
\* classification of a manifest that is Patch or Complete: not the linking of
\* other manifests, not the source binding, the reparenting or the sort, and
\* the listing shows it with the classification it has in the store.
ClassificationStable ==
  [][ /\ \A id \in Ids(kustomizations') \ Ids(kustomizations) :
           RecordOf(kustomizations', id).ftype = "Base"
      /\ \A id \in Ids(kustomizations) :
           /\ id \in Ids(kustomizations')
           /\ RecordOf(kustomizations, id).ftype # "Base" =>
                RecordOf(kustomizations', id).ftype = RecordOf(kustomizations, id).ftype
      /\ \A n \in 1..Len(Items(kustomizations')) :
           Items(kustomizations')[n].ftype
             = RecordOf(kustomizations', Items(kustomizations')[n].id).ftype ]_vars

\* The pipeline has ended with a Complete, a Patch and a Base manifest in the
\* store, the sort having moved a record from the place it was appended at.
ClassifiedAndMoved ==
  /\ pc = "done"
  /\ \A c \in { "Base", "Patch", "Complete" } :
       \E i \in 1..Len(kustomizations) : kustomizations[i].ftype = c
  /\ \E i \in 1..Len(kustomizations) : \E j \in 1..Len(kustomizations) :
       i < j /\ kustomizations[i].id > kustomizations[j].id

\* The namespace a source reference is looked up in: its own when it gives
\* one, otherwise that of the manifest
ReferredNamespace(k) ==
  IF k.sourceRef[1].namespace # None THEN k.sourceRef[1].namespace[1]
  ELSE GetNamespace(k)

\* The Source records the reference of manifest k names
Referred(ss, k) ==
  { s \in 1..Len(ss) :
      /\ ss[s].kind = k.sourceRef[1].kind
      /\ ss[s].name = k.sourceRef[1].name
      /\ SourceGetNamespace(ss[s]) = ReferredNamespace(k) }

\* C16: after source binding every manifest with a source reference has its
\* source field set exactly when a Source record of the referred kind, name
\* and namespace exists, and then the field refers to such a record.
SourceSetIffReferred ==
  AllLinked =>
    \A i \in 1..Len(kustomizations) :
      kustomizations[i].sourceRef # None =>
        /\ kustomizations[i].source # 0 <=> Referred(sources, kustomizations[i]) # { }
        /\ kustomizations[i].source # 0 =>
             kustomizations[i].source \in Referred(sources, kustomizations[i])

\* The Source records that have the manifest in slot i among their children
ParentsOf(ss, i) == { s \in 1..Len(ss) : i \in Range(ss[s].children) }

\* C17: in the linking loop, a manifest that setSource has been called for is
\* in the children of at most one Source, the first record of the source
\* store that its reference names, and its source field, when set by the
\* binder, refers to that record; no later record has it as a child.
BoundToFirstMatch ==
  pc = "link" =>
    \A i \in 1..linked :
      kustomizations[i].sourceRef # None =>
        /\ ParentsOf(sources, i) \subseteq { First(Referred(sources, kustomizations[i])) }
        /\ ParentsOf(sources, i) # { } =>
             kustomizations[i].source = First(Referred(sources, kustomizations[i]))

\* C18: once every manifest is linked and bound, the source field of a
\* manifest refers to a Source exactly when the manifest is among the
\* children of that Source.
SourceBidirectional ==
  AllLinked =>
    \A i \in 1..Len(kustomizations) : \A s \in 1..Len(sources) :
      kustomizations[i].source = s <=> i \in Range(sources[s].children)

RECURSIVE Descendants(_, _, _)
\* The nodes below the nodes of S: their children, nil entries left out, and
\* the children of those, n levels deep
Descendants(ns, S, n) ==
  IF n = 0 THEN { }
  ELSE (UNION { Range(ns[c].children) : c \in S } \ { 0 })
         \cup Descendants(ns, UNION { Range(ns[c].children) : c \in S } \ { 0 }, n - 1)

\* The roots, and the nodes of the cluster structure
Roots == Range(clusters) \ { 0 }

ClusterNodes == Roots \cup Descendants(nodes, Roots, Len(nodes))

\* C20: the cluster structure is a forest: no node of it is a child of two
\* nodes of it, no root is in the root list twice or a child of a node, and
\* after reparenting no root is a descendant of another root.
ClusterForest ==
  /\ \A n \in ClusterNodes :
       Cardinality({ p \in ClusterNodes : n \in Range(nodes[p].children) }) <= 1
  /\ \A r \in Roots : Count(clusters, r) = 1
  /\ pc \in { "sort", "ready", "done" } =>
       \A r \in Roots : r \notin Descendants(nodes, Roots, Len(nodes))

\* After reparenting a root has a child that was a root and had itself
\* absorbed a root, which has the child the crawl gave it.
ReparentedThreeDeep ==
  /\ pc = "done"
  /\ \E r \in Roots : \E c \in Range(nodes[r].children) \ { 0 } :
       \E g \in Range(nodes[c].children) \ { 0 } :
         /\ Range(nodes[g].children) \ { 0 } # { }
         /\ 0 \in Range(nodes[g].children)

\* The records of the file at p are in the stores, as many as the file yields
Collected(p) ==
  /\ Cardinality(From(kustomizations, p)) = Len(parseYamlFromFile(tree, p, 1).kustomizations)
  /\ Cardinality(From(sources, p)) = Len(parseYamlFromFile(tree, p, 1).sources)

\* C21: an entry that cannot be stat'ed, read or parsed is skipped silently:
\* when the crawl is over the records of every YAML file are collected, the
\* run has not ended in the error message, and it has ended in the fatal
\* message only if the tree holds no manifest.
CrawlSkipsSilently ==
  pc # "walk" =>
    /\ \A p \in YamlFiles(tree) : Collected(p)
    /\ pc # "error"
    /\ pc = "fatal" => ManifestDocs(tree) = { }

\* The same for the trees in which os.Stat succeeds on every entry
CrawlSkipsUnreadable ==
  (pc # "walk" /\ Trees[tree].broken = { }) =>
    /\ \A p \in YamlFiles(tree) : Collected(p)
    /\ pc # "error"
    /\ pc = "fatal" => ManifestDocs(tree) = { }

\* The manifests whose build directory cannot be walked
Failing == { i \in 1..Len(kustomizations) : WalkFails(tree, kustomizations[i]) }

\* C22: a manifest whose build directory cannot be walked does not stop the
\* run: the linking loop goes on to the last record and never ends the run,
\* a failing manifest is source-bound like any other, and the finished run
\* has emitted one error message for each failing manifest and the ready
\* message, with ready = false exactly when a manifest has failed.
LinkFailureGoesOn ==
  /\ pc \in { "error", "panic" } => linked = 0 /\ Failing = { }
  /\ pc = "link" =>
       \A i \in (1..linked) \cap Failing :
         (kustomizations[i].sourceRef # None /\ Referred(sources, kustomizations[i]) # { })
           => \E s \in 1..Len(sources) :
                i \in Range(sources[s].children)
                  \/ HasChild(kustomizations, sources[s], kustomizations[i])
  /\ pc \in { "sort", "ready", "done" } => linked = Len(kustomizations)
  /\ pc = "done" =>
       /\ Cardinality(EmittedOf("ModelErrorMsg")) = Cardinality(Failing)
       /\ \E n \in EmittedOf("ModelReadyMsg") :
            /\ EmittedOf("ModelReadyMsg") = { n }
            /\ emitted[n].ready = (Failing = { })

\* A run has ended in which the first manifest linked had a build directory
\* that does not exist: the other manifest was linked and both are bound to
\* the source, and the ready message carries ready = false.
FinishedAfterLinkFailure ==
  /\ pc = "done"
  /\ Failing # { }
  /\ \E i \in Failing : \A j \in 1..Len(kustomizations) :
       kustomizations[j].id >= kustomizations[i].id
  /\ \A i \in 1..Len(kustomizations) : kustomizations[i].source # 0
  /\ \A i \in 1..Len(kustomizations) : kustomizations[i].ftype # "Base"
  /\ emitted[Len(emitted)] = ModelReadyMsg(FALSE)

\* The item of the list the cursor is on
Item == SelectedItem(sidebar.list[1])[1]

\* FindSelected has been called for the item the cursor is on
Found == status = "running" /\ sidebar.list # None /\ selection # None

\* C23: what FindSelected returns is the record of the store with the id of
\* the selected item; on the Source tab it is the Source that record is bound
\* to, with ok exactly when the record is bound.
FindSelectedReturnsSelected ==
  Found =>
    IF sidebar.lasttab = TabSource
      THEN /\ selection[1].api = Some([ source |-> RecordOf(kustomizations, Item.id).source ])
           /\ selection[1].ok = (RecordOf(kustomizations, Item.id).source # 0)
      ELSE /\ selection[1].ok
           /\ \E i \in 1..Len(kustomizations) :
                /\ selection[1].api = Some([ kustomization |-> i ])
                /\ kustomizations[i].id = Item.id

\* What FindSelected does return: the first record of the store with the path
\* and the name of the selected item
FindSelectedReturnsFirstNamed ==
  Found => selection[1] = Selected(kustomizations, sidebar.lasttab,
                                   FirstNamed(kustomizations, GetPath(Item), GetName(Item)))

\* The second of two items of one file and one name is selected on the Source tab
SelectedSecondTwin ==
  /\ Found
  /\ sidebar.lasttab = TabSource
  /\ sidebar.list[1].index = 1
  /\ GetName(sidebar.list[1].items[1]) = GetName(Item)
  /\ GetPath(sidebar.list[1].items[1]) = GetPath(Item)
  /\ Item.source # 0
  /\ ~selection[1].ok

\* C24: with Tab pressed again and again, the focus that has moved into the
\* primary view comes back to the sidebar, unless the user quits.
TabReturnsFocus == [](focus = "primary" => <>(focus = "sidebar" \/ status = "quit"))

\* The same once the sidebar has its list
TabReturnsFocusOfLoaded ==
  []((focus = "primary" /\ status = "running") => <>(focus = "sidebar" \/ status = "quit"))

\* From the sidebar Tab goes to the query input or filter of the active tab
\* when it has one and else to its viewport, from the query input to the
\* viewport, and from the viewport back to the sidebar.
TabOrder ==
  [][(KeyTab /\ status' = "running") =>
       /\ primary.tabContent[ActiveTab(primary)] = NoFocus =>
            /\ focus' = "primary"
            /\ primary'.tabContent[ActiveTab(primary)] =
                 IF ShowQuery[ActiveTab(primary)]
                    /\ (ActiveTab(primary) = TabFluxDiff => primary.filter)
                   THEN QueryFocus ELSE ViewportFocus
       /\ primary.tabContent[ActiveTab(primary)] = QueryFocus =>
            focus' = "primary" /\ primary'.tabContent[ActiveTab(primary)] = ViewportFocus
       /\ primary.tabContent[ActiveTab(primary)] = ViewportFocus =>
            focus' = "sidebar" /\ primary'.tabContent[ActiveTab(primary)] = NoFocus
       /\ focus = "sidebar" => primary.tabContent[ActiveTab(primary)] = NoFocus]_vars

\* Tab pressed before the sidebar has its list
TabPressedUnloaded == status = "panic" /\ focus = "primary" /\ sidebar.list = None

\* The nodes of the cluster structure after the step
ClusterNodesAfter == ClusterNodes'

\* The roots the step has absorbed under other roots
Absorbed == Roots \ Roots'

\* C25: the step of reparenting attaches, for every root it absorbs, a node
\* with the name, the path and exactly the children of that root, and the
\* structure has as many nodes after the step as before it.
AbsorbedAsItWas ==
  [][(pc = "link" /\ pc' = "sort") =>
       /\ \A r \in Absorbed : \E n \in ClusterNodesAfter \ Roots' :
            /\ nodes'[n].name = nodes'[r].name
            /\ nodes'[n].filepath = nodes'[r].filepath
            /\ nodes'[n].children = nodes'[r].children
       /\ 0 \notin UNION { Range(nodes'[n].children) : n \in ClusterNodesAfter }
       /\ Cardinality(ClusterNodesAfter) = Cardinality(ClusterNodes)]_vars

\* What the step does attach: the children of the root behind as many nil
\* entries as the root had children
AbsorbedBehindNils ==
  [][(pc = "link" /\ pc' = "sort") =>
       /\ \A r \in Absorbed : \E n \in ClusterNodesAfter \ Roots' :
            /\ nodes'[n].name = nodes'[r].name
            /\ nodes'[n].filepath = nodes'[r].filepath
            /\ nodes'[n].children = Nils(Len(nodes'[r].children)) \o nodes'[r].children
       /\ Cardinality(ClusterNodesAfter) = Cardinality(ClusterNodes)]_vars

\* The layering files at or below the directory dir
LayeringUnder(t, dir) ==
  { f \in Trees[t].files : f.path \in FilesUnder(t, dir) /\ Stem(Base(f.path)) = Kustomization }

\* The paths the resources of the layering file f name, as followKustomization
\* resolves them
ResourcePaths(f) ==
  UNION { { Abs(Join(f.path, d.resources[i])) : i \in 1..Len(d.resources) } : d \in Range(f.kust) }

RECURSIVE NamedPaths(_, _, _)
\* The paths named by the layering files fs and by the layering files of the
\* directories they name, n levels deep
NamedPaths(t, fs, n) ==
  IF n = 0 \/ fs = { } THEN { }
  ELSE UNION { ResourcePaths(f) : f \in fs }
         \cup NamedPaths(t, UNION { LayeringUnder(t, d) : d \in { p \in UNION { ResourcePaths(f) : f \in fs } : IsDir(t, p) } }, n - 1)

\* The paths the layering files of the build directory of record i name
NamedBy(i) ==
  IF kustomizations[i].specPath = None THEN { }
  ELSE NamedPaths(tree, LayeringUnder(tree, GetAbsoluteSpecPath(kustomizations[i])),
             Cardinality(Trees[tree].files))

\* C26: when the linking is done, every manifest whose file an entry of a
\* layering file of the build directory of M names, directly or through the
\* directories named, is a child of M.
ResourcesProcessed ==
  pc = "sort" =>
    \A i, j \in 1..Len(kustomizations) :
      GetPath(kustomizations[j]) \in NamedBy(i) => j \in Range(kustomizations[i].children)

\* The linking is done; a layering file named the file of a manifest, and,
\* after a directory, the file of a Source that was not bound
ResourcesNamed ==
  /\ pc = "sort"
  /\ \E i, j \in 1..Len(kustomizations) : GetPath(kustomizations[j]) \in NamedBy(i)
  /\ \E i \in 1..Len(kustomizations), s \in 1..Len(sources) :
       sources[s].filepath \in NamedBy(i) /\ kustomizations[i].source = 0

\* The record the step of the linking loop links
Linking == linked + 1

\* The step links a record that declares a substitution map
LinksWithMap ==
  /\ pc = "link"
  /\ linked' = linked + 1
  /\ kustomizations[Linking].postBuild # None

\* The manifests whose files lie in the build directory of record i or are
\* named by its layering files
Below(i) ==
  { c \in 1..Len(kustomizations) :
      GetPath(kustomizations[c]) \in
        FilesUnder(tree, GetAbsoluteSpecPath(kustomizations[i])) \cup NamedBy(i) }

\* Name and build path of record c after the step are those before it with
\* the map applied
SubstitutedBy(c, map) ==
  /\ kustomizations'[c].name \in ParseSubstitutions(kustomizations[c].name, map)
  /\ IF kustomizations[c].specPath = None THEN kustomizations'[c].specPath = None
     ELSE /\ kustomizations'[c].specPath # None
          /\ kustomizations'[c].specPath[1] \in
               ParseSubstitutions(kustomizations[c].specPath[1], map)

BoundSubstituted ==
  [][LinksWithMap =>
       \A c \in Range(kustomizations'[Linking].children) :
         SubstitutedBy(c, kustomizations[Linking].postBuild[1])]_vars

\* No step of the linking loop binds a manifest to the record it links
NeverBound ==
  [][(pc = "link" /\ linked' = linked + 1) => kustomizations'[Linking].children = << >>]_vars

\* A record with a map has been linked whose build directory holds a manifest
\* with a token of the map in its name
LinkedOverToken ==
  /\ pc = "sort"
  /\ \E i \in 1..Len(kustomizations) :
       /\ kustomizations[i].postBuild # None
       /\ \E c \in Below(i) \ { i } :
            ParseSubstitutions(kustomizations[c].name, kustomizations[i].postBuild[1])
              # { kustomizations[c].name }

\* The ids of the manifests a sequence of references denotes in the store ks
Denoted(ks, refs) == [ n \in 1..Len(refs) |-> IF refs[n] = 0 THEN 0 ELSE ks[refs[n]].id ]

\* The step is the sort of the store
Sorts == pc = "sort" /\ pc' = "ready"

\* C28: across the sort the children entries and the parent of every
\* manifest and the children entries of every Source denote the manifests
\* with the same ids.
SortKeepsDenotation ==
  [][Sorts =>
       /\ \A i \in 1..Len(kustomizations) :
            /\ Denoted(kustomizations', RecordOf(kustomizations', kustomizations[i].id).children)
                 = Denoted(kustomizations, kustomizations[i].children)
            /\ Denoted(kustomizations', << RecordOf(kustomizations', kustomizations[i].id).parent >>)
                 = Denoted(kustomizations, << kustomizations[i].parent >>)
       /\ \A s \in 1..Len(sources) :
            Denoted(kustomizations', sources'[s].children)
              = Denoted(kustomizations, sources[s].children)]_vars

\* The sort moves the records and leaves every reference naming its slot
SortKeepsSlots ==
  [][Sorts =>
       /\ \A i \in 1..Len(kustomizations) :
            /\ RecordOf(kustomizations', kustomizations[i].id) = kustomizations[i]
       /\ sources' = sources]_vars

\* The store is sorted and an entry of the children of a Source names the
\* slot of a manifest that refers to no Source
SortedUnderSource ==
  /\ pc = "done"
  /\ \E s \in 1..Len(sources) : \E n \in 1..Len(sources[s].children) :
       kustomizations[sources[s].children[n]].sourceRef = None

\* The file of the tree a manifest record was parsed from
FileOf(k) ==
  CHOOSE f \in Trees[tree].files : TrimPrefix(f.path, Root \o << "/" >>) = k.filepath

\* The document a manifest record was appended for: the records of one file
\* get their ids in the order of the Kustomization documents of the file.
OwnDocument(k) ==
  LET f == FileOf(k)
      rank == Cardinality({ j \in From(kustomizations, f.path) :
                              kustomizations[j].id < k.id })
  IN  f.docs[CHOOSE n \in KustomizationDocs(f) :
               Cardinality({ m \in KustomizationDocs(f) : m < n }) = rank]

\* The source reference a document gives; a reference without a namespace
\* takes the namespace of the metadata of its document.
OwnSourceRef(y) ==
  IF y.sourceRef = None THEN None
  ELSE Some([ kind |-> y.sourceRef[1].kind[1], name |-> y.sourceRef[1].name[1],
              namespace |-> IF y.sourceRef[1].namespace # None
                              THEN y.sourceRef[1].namespace ELSE y.namespace ])

\* Namespace, build path, source reference and substitution map as the
\* document of record k gives them
OfOwnDocument(k) ==
  \E y \in { OwnDocument(k) } :
    /\ k.namespace = y.namespace
    /\ k.specPath = y.path
    /\ k.sourceRef = OwnSourceRef(y)
    /\ k.postBuild = y.substitute

\* C29: namespace, build path, source reference and substitution map of
\* every manifest record are those of its own document, and absent when that
\* document does not give them.
RecordsIndependent ==
  \A i \in 1..Len(kustomizations) : OfOwnDocument(kustomizations[i])

\* The record of a file that holds one document is the record of that
\* document
SingleDocumentRecords ==
  \A i \in 1..Len(kustomizations) :
    Len(FileOf(kustomizations[i]).docs) = 1 => OfOwnDocument(kustomizations[i])

\* Two manifests decoded from one file are in the store
TwoRecordsOfOneFile ==
  \E i, j \in 1..Len(kustomizations) :
    i # j /\ kustomizations[i].filepath = kustomizations[j].filepath

\* C30: no key, mouse or tab-changed event and no signal of the run ends the
\* program in a panic: the sidebar never dereferences an absent list or an
\* absent selected item.
SidebarHandlesEvents == status # "panic"

\* A panic of the sidebar is one on a list that is absent or shows no item
PanicsWithoutItems ==
  status = "panic" => \/ sidebar.list = None
                      \/ sidebar.list[1].items = << >>

\* The run is complete, its ready signal is not handled yet and an event has
\* ended the program
PanicBeforeReady ==
  /\ status = "panic"
  /\ pc = "done"
  /\ \A n \in delivered : emitted[n].type # "ModelReadyMsg"

\* The run was fatal or aborted, so no ready signal arrives, and an event has
\* ended the program
PanicWithoutReady ==
  /\ status = "panic"
  /\ pc \in { "fatal", "error" }

\* The ready signal of a run whose manifests are all Base has ended the
\* program
PanicOnEmptyList ==
  /\ status = "panic"
  /\ sidebar.list = Some(newlist(kustomizations))
  /\ kustomizations # << >>
  /\ Visible(kustomizations) = { }
  /\ \E n \in delivered : emitted[n].type = "ModelReadyMsg"

\* C31: while the goroutines of the crawl call checkClusterPath, no two
\* entries of the root list have the same name and no node has two children
\* of the same name.
UniqueClusterNames ==
  pc \in { "walk", "crawled" } =>
    /\ \A i, j \in 1..Len(clusters) :
         i # j => nodes[clusters[i]].name # nodes[clusters[j]].name
    /\ \A n \in 1..Len(nodes) : \A i, j \in 1..Len(nodes[n].children) :
         i # j => nodes[nodes[n].children[i]].name # nodes[nodes[n].children[j]].name

\* A goroutine holds the mutex for a path that names a root and a child which
\* are both there already, while another goroutine waits with a path that names
\* the same root
SecondOfTheName ==
  \E w, v \in 1..MaxWorkers :
    /\ workers[w].at = "looped" /\ workers[w].foundParent
    /\ Len(workers[w].clusters) > 1
    /\ \E i \in 1..Len(clusters) :
         /\ nodes[clusters[i]].name = workers[w].clusters[1]
         /\ ChildrenNamed(nodes, clusters[i], workers[w].clusters[2]) # { }
    /\ workers[v].at = "matched"
    /\ workers[v].clusters[1] = workers[w].clusters[1]

\* C32: the linking of a manifest terminates, whatever directories the
\* resources of the layering files name: followKustomization calls itself
\* only for a directory resource, that call reads no layering file and so
\* makes no further call, and no chain of calls goes round a circle of
\* directories.
LinkingTerminates ==
  \A w \in InFollow :
    /\ workers[w].depth <= 1
    /\ workers[w].at = "reading" => workers[w].depth = 0

\* The layering file at path lists a resource that is a directory
ListsDirectory(t, path) ==
  /\ path \in FilePaths(t)
  /\ \E n \in 1..Len(FileAt(t, path).kust) :
       \E r \in Range(FileAt(t, path).kust[n].resources) :
         IsDir(t, Abs(Join(path, r)))

\* followKustomization has been called for a directory whose own layering
\* file lists a directory again
CalledForListingDirectory ==
  \E w \in 1..MaxWorkers :
    /\ workers[w].at = "called"
    /\ IsDir(tree, workers[w].path)
    /\ ListsDirectory(tree, FollowedLayeringFile(workers[w].path))

\* The paths the crawl passes to checkClusterPath
Checked(t) == Trees[t].dirs \cup Trees[t].broken

\* Some segment of the path below the root is a marker (every segment that
\* ends with one when exact is FALSE) and is followed by a further segment
MarkerFollowed(path, exact) ==
  \E segs \in { Split(TrimPrefix(path, Root \o << "/" >>)) } :
    \E i \in 1..(Len(segs) - 1) :
      /\ IF exact THEN segs[i] \in { W_clusters, W_hub } ELSE Marker(segs[i]) # << >>
      /\ segs[i + 1] # << >>

\* The names of the nodes that the checked paths with a marker segment give
NamesOf(t, exact) ==
  UNION { Range(Candidate(p).clusters) : p \in { q \in Checked(t) : MarkerFollowed(q, exact) } }

\* C33: every node of the cluster structure has the name of a candidate of
\* a visited path in which a segment is exactly clusters or exactly hub and
\* is followed by a further segment.
CandidatesOfExactMarkers ==
  \A n \in 1..Len(nodes) : nodes[n].name \in NamesOf(tree, TRUE)

\* Every node comes from a visited path in which a segment ends with a marker
CandidatesOfMarkerSuffixes ==
  \A n \in 1..Len(nodes) : nodes[n].name \in NamesOf(tree, FALSE)

\* The crawl is over and has made a root for a directory below one whose
\* name only ends with a marker
RootBelowGithub ==
  /\ pc # "walk"
  /\ \E i \in 1..Len(clusters) :
       /\ clusters[i] # 0
       /\ ~MarkerFollowed(nodes[clusters[i]].filepath, TRUE)
       /\ MarkerFollowed(nodes[clusters[i]].filepath, FALSE)

\* A marker segment of the path is followed by a reserved common name
ReservedAfterMarker(path) ==
  \E segs \in { Split(TrimPrefix(path, Root \o << "/" >>)) } :
    \E i \in 1..(Len(segs) - 1) :
      Marker(segs[i]) # << >> /\ segs[i + 1] \in commonNamespaces

\* C34: no node is named by a reserved common name, the marker segment
\* being its name instead, and the path recorded for a node holds no reserved
\* segment after a marker segment, whichever directory at or below the
\* reserved directory the node was made for.
ReservedStripped ==
  \A n \in 1..Len(nodes) :
    /\ nodes[n].name \notin commonNamespaces
    /\ ~ReservedAfterMarker(nodes[n].filepath)

\* The marker names the node, and the path of a root holds no reserved segment
ReservedStrippedOfRoots ==
  /\ \A n \in 1..Len(nodes) : nodes[n].name \notin commonNamespaces
  /\ pc = "walk" => \A i \in 1..Len(clusters) : ~ReservedAfterMarker(nodes[clusters[i]].filepath)

\* A root is named by its marker segment, the reserved segment that followed
\* is not in its path, and it has a child made for a directory below the
\* reserved directory
ChildBelowReserved ==
  \E i \in 1..Len(clusters) :
    /\ clusters[i] # 0
    /\ nodes[clusters[i]].name \in { W_clusters, W_hub }
    /\ nodes[clusters[i]].children # << >>

RECURSIVE InLexicalOrder(_)
\* The paths of a set in lexical order, a directory before what is below it:
\* the least path, then the others.
LeastFirst(S, m) == << m >> \o InLexicalOrder(S \ { m })

InLexicalOrder(S) ==
  IF S = { } THEN << >> ELSE LeastFirst(S, CHOOSE x \in S : \A y \in S : StrCompare(x, y) <= 0)

RECURSIVE CheckedInOrder(_, _)
\* The forest after checkClusterPath was called for the paths in the order given
CheckedInOrder(forest, order) ==
  IF order = << >> THEN forest
  ELSE CheckedInOrder(checkClusterPath(forest, Head(order)), Tail(order))

\* The forest a crawl that visits the directories in lexical order leaves
LexicalCrawl(t) ==
  CheckedInOrder([ clusters |-> << >>, nodes |-> << >> ], InLexicalOrder(Checked(t)))

RECURSIVE Shape(_, _, _)
\* The structure below node n, without the places the nodes have in the heap
\* and in the children lists: name, path (when paths is TRUE) and the shapes of
\* the children.
Shape(ns, n, paths) ==
  [ name |-> ns[n].name,
    filepath |-> IF paths THEN ns[n].filepath ELSE << >>,
    children |-> { Shape(ns, c, paths) : c \in Range(ns[n].children) \ { 0 } } ]

\* The shapes of the roots of a forest
ForestShape(f, paths) == { Shape(f.nodes, r, paths) : r \in Range(f.clusters) \ { 0 } }

\* The crawl has visited every directory
Crawled == pc \in { "link", "fatal" }

Reparented == pc \in { "sort", "ready", "done" }

\* C35: the cluster structure the crawl leaves, and the one reparenting
\* leaves, are those of the crawl in lexical order, whatever order the
\* directories were visited and the roots inserted in: the same roots, and
\* for every node the same name, path and children.
ForestOfAnyOrder ==
  /\ Crawled =>
       ForestShape([ clusters |-> clusters, nodes |-> nodes ], TRUE)
         = ForestShape(LexicalCrawl(tree), TRUE)
  /\ Reparented =>
       ForestShape([ clusters |-> clusters, nodes |-> nodes ], TRUE)
         = ForestShape(reparentClusters(tree, LexicalCrawl(tree)), TRUE)

\* The names of the structure the crawl leaves do not depend on the order
NamesOfAnyOrder ==
  Crawled =>
    ForestShape([ clusters |-> clusters, nodes |-> nodes ], FALSE)
      = ForestShape(LexicalCrawl(tree), FALSE)

\* The crawl has left a root whose path is not the one the lexical order
\* gives the root of that name
RootOfOtherPath ==
  /\ Crawled
  /\ \E i \in 1..Len(clusters) : \E f \in { LexicalCrawl(tree) } :
       \E j \in 1..Len(f.clusters) :
         /\ nodes[clusters[i]].name = f.nodes[f.clusters[j]].name
         /\ nodes[clusters[i]].filepath # f.nodes[f.clusters[j]].filepath

\* Reparenting has left other names below the roots than it leaves after a
\* crawl in lexical order
ReparentedOtherwise ==
  /\ Reparented
  /\ ForestShape([ clusters |-> clusters, nodes |-> nodes ], FALSE)
       # ForestShape(reparentClusters(tree, LexicalCrawl(tree)), FALSE)

\* What names a manifest whatever the order of the crawl: its file and its
\* rank among the manifests of that file (the ids of one file are given out
\* together, in the order of its documents).
KeyOf(ks, i) ==
  << ks[i].filepath,
     Cardinality({ j \in 1..Len(ks) : ks[j].filepath = ks[i].filepath /\ ks[j].id < ks[i].id }) >>

\* The outcome of the linking for the manifests: name, build path and the
\* manifests the children entries denote, without the places in the store.
LinkedOutcome(ks) ==
  { [ key |-> KeyOf(ks, i), name |-> ks[i].name, specPath |-> ks[i].specPath,
      children |-> { KeyOf(ks, ks[i].children[n]) : n \in 1..Len(ks[i].children) } ] :
    i \in 1..Len(ks) }

RECURSIVE ParsedInOrder(_, _, _, _)
\* The store after rootFn has parsed the YAML files in the order given
ParsedAfter(t, rest, st, r, id) ==
  ParsedInOrder(t, rest,
                [ st EXCEPT !.kustomizations = @ \o r.kustomizations,
                            !.sources = @ \o r.sources ],
                id + r.count)

ParsedInOrder(t, order, st, id) ==
  IF order = << >> THEN st
  ELSE ParsedAfter(t, Tail(order), st, parseYamlFromFile(t, Head(order), id), id)

\* The iteration of the linking loop for index, from the store st
LinkedOne(t, st, index) ==
  { setSource(st1, index) :
      st1 \in followFluxKustomization(t,
                [ st EXCEPT !.kustomizations[index].children = << >> ], index) }

RECURSIVE LinkedFrom(_, _, _)
\* The stores the linking loop can leave from index on
LinkedFrom(t, sts, index) ==
  IF \A st \in sts : index > Len(st.kustomizations) THEN sts
  ELSE LinkedFrom(t, UNION { LinkedOne(t, st, index) : st \in sts }, index + 1)

\* The outcomes of walk when the crawl finds the YAML files in lexical order
LexicalOutcomes(t) ==
  { LinkedOutcome(SortKustomizations(st.kustomizations)) :
      st \in LinkedFrom(t, { ParsedInOrder(t, InLexicalOrder(YamlFiles(t)),
                                           Store(<< >>, << >>), 1) }, 1) }

ShownIn(t) == { primary.shown[t][n] : n \in 1..Len(primary.shown[t]) }

\* The content of every tab was requested for that tab
ShownForOwnTab == \A t \in Range(Tabs) : \A c \in ShownIn(t) : c.tab = t

\* No command is running, and the active tab is the one the sidebar has
\* requested the content of its selection for
Settled(t) ==
  /\ status = "running"
  /\ msgs = << >>
  /\ ActiveTab(primary) = t
  /\ sidebar.lasttab = t
  /\ ~primary.splash[t]
  /\ selection # None

\* The content of the active tab is that of the selection, once no command
\* is running
ShownForSelection ==
  \A t \in Range(Tabs) : \A c \in ShownIn(t) :
    (Settled(t) /\ selection[1].ok) => c.api = selection[1].api

\* C37: the content a tab shows was requested for that tab, and when no
\* command is running any more the content of the active tab is that of the
\* manifest selected: a result that arrives after the user has changed the tab
\* or the selection is not shown in the tab that is active then.
ResultsShownWhereRequested == ShownForOwnTab /\ ShownForSelection

\* The Flux Diff tab shows the output of a build
BuildShownAsDiff ==
  \E c \in ShownIn(TabFluxDiff) : c.tab = TabFluxBuild

\* The sidebar has taken the change to tab t, t is the active tab and its
\* content shows the splash.  The first tab is active from the start; another
\* one is active only after a tab change.
SplashShown(t) ==
  /\ status = "running"
  /\ t # TabKustomize
  /\ sidebar.lasttab = t
  /\ ActiveTab(primary) = t
  /\ primary.splash[t]

\* The splash of tab t is hidden, or t is not the active tab any more, or
\* the program has ended, or a further tab change waits to be taken
SplashOver(t) ==
  \/ ~primary.splash[t]
  \/ ActiveTab(primary) # t
  \/ status # "running"
  \/ \E i \in 1..Len(msgs) : msgs[i].type = "TabChangedMsg"

\* C38: after a tab change the splash of the newly active tab is hidden in
\* the end: a file, flux-output or error message that hides it follows.
SplashHiddenAfterTabChange ==
  \A t \in Range(Tabs) : SplashShown(t) ~> SplashOver(t)

\* The same of the tabs that run flux
SplashHiddenOnFluxTabs ==
  \A t \in { TabFluxBuild, TabFluxDiff } : SplashShown(t) ~> SplashOver(t)

\* The Source tab shows its splash for a manifest without a bound Source and
\* no command is running
SplashLeftOnSourceTab ==
  /\ SplashShown(TabSource)
  /\ msgs = << >>
  /\ selection # None
  /\ ~selection[1].ok

\* The places of the header lines in the input
HeadersOf(lines) == { i \in 1..Len(lines) : HasPrefix(lines[i], EntryIndicator) }

\* The place of the n-th header line
NthHeader(lines, n) ==
  CHOOSE h \in HeadersOf(lines) : Cardinality({ g \in HeadersOf(lines) : g < h }) = n - 1

\* The lines from the header at h up to the next header or the end
BlockAt(lines, h) ==
  SubSeq(lines, h,
         IF \E g \in HeadersOf(lines) : g > h
           THEN (CHOOSE g \in HeadersOf(lines) :
                   g > h /\ \A f \in HeadersOf(lines) : f > h => g <= f) - 1
           ELSE Len(lines))

\* The entry of each header line, parsed from its own lines alone
EntriesByBlock(lines) ==
  [ n \in 1..Cardinality(HeadersOf(lines)) |->
      parseFluxDiff(BlockAt(lines, NthHeader(lines, n)))[1] ]

\* C39: parseFluxDiff returns one entry for every header line, in the order
\* of the input, and every entry has the changes that the lines between its
\* header and the next header give, also when a header follows a change
\* without an empty line in between.
ParsedByEntry ==
  pc = "parsed" => results = EntriesByBlock(output)

\* One entry for every header line, in the order of the input, with the title
\* of the line
OneEntryPerHeader ==
  pc = "parsed" =>
    /\ Len(results) = Cardinality(HeadersOf(output))
    /\ \A n \in 1..Len(results) :
         results[n].Title = TrimSpace(TrimPrefix(output[NthHeader(output, n)], EntryIndicator))

\* The call has returned for the input of an entry with a key, a title and
\* an addition, followed at once by the header of a second entry: the first
\* entry has no change and the second one has the change of the first
ChangeLeftTheEntry ==
  /\ pc = "parsed"
  /\ output = << HeaderA, << " ", "k" >>, << " ", ChangeIndicator >>,
                 << " ", AdditionIndicator, "1" >>, HeaderB >>
  /\ Len(results) = 2
  /\ results[1].Changes = << >>
  /\ results[2].Changes # << >>

============================================================================
